---- MODULE Spec2Model ----
(***************************************************************************)
(* go-agent-memory: the three Memory implementations behind NewWithConfig  *)
(* (SessionOnlyMemory, SupabaseMemory, HybridMemory) as one state machine. *)
(*                                                                         *)
(* The durable tier is the agent_messages / agent_summaries tables, the    *)
(* cache tier is the Redis list session:<id>:messages (index 1 of the      *)
(* sequence is the head of the list, where LPUSH inserts) and the hash     *)
(* session:<id>:meta.  A caller issues one Memory call at a time; a call   *)
(* of SupabaseMemory/HybridMemory advances one network command per step,   *)
(* and every command to a tier may fail.  The goroutines started by        *)
(* HybridMemory.GetRecentMessages run concurrently with the caller, one    *)
(* Redis command per step.  SessionOnlyMemory calls hold the mutex for the *)
(* whole call and are single steps.                                        *)
(*                                                                         *)
(* Message.Timestamp is the caller's time.Now(): a clock that advances     *)
(* with every AddMessage call.                                             *)
(***************************************************************************)
EXTENDS Integers, Sequences, FiniteSets, TLC

\* ---------------------------------------------------------------- bounds
Sessions == {"A", "B"}
\* the sessions the caller works on
Callers == {"A"}
\* the other sessions
Others == Sessions \ Callers
Ids == {"m1", "m2", "m3"}
\* the goroutines that call one SessionOnlyMemory concurrently
Goroutines == {"g1", "g2"}
Limits == {-1, 0, 1, 3}

\* number of AddMessage calls in a behaviour
MaxClock == 3
\* background repopulation goroutines in flight at once
MaxRepop == 1
\* rows of agent_summaries
MaxSummaries == 2
\* tier commands that fail and keys that expire in a behaviour
MaxFaults == 1

\* ---------------------------------------------------------- configuration
Modes == {"session_only", "persistent", "hybrid"}
\* Config.MaxSessionMessages (default 50)
MaxSessionMessages == 2
\* Config.SummarizeThreshold (default 30)
SummarizeThreshold == 2
\* SupabaseMemory.GetRecentMessages: limit <= 0 means 50
DefaultRecentLimit == 50
\* SupabaseMemory.Summarize reads up to 1000 messages
SummarizeFetchLimit == 1000
\* SupabaseMemory.SearchWithEmbedding: limit <= 0 means 10
DefaultSearchLimit == 10
\* SupabaseMemory.SearchWithEmbedding: threshold <= 0 means 0.7 (scores in hundredths)
DefaultSearchThreshold == 70
\* Config.SessionTTL (default 24h), in ticks of the Redis clock
SessionTTL == 2
\* maxTokens arguments of Summarize (a message costs 2 tokens)
TokenBudgets == {0, 3}
\* the maxTokens argument that sets no budget
NoBudget == {0}
\* Config.Mode: the three modes, or unset
ConfigModes == Modes \cup {""}
\* Config.DatabaseURL: unset, a connection string, a string that does not parse
DatabaseURLs == {"", "postgres://db", "::"}
\* Config.RedisAddr: unset or an address
RedisAddrs == {"", "cache:6379"}
\* query texts, also used as query vectors
Queries == {1, 2}
\* similarity thresholds, in hundredths
Thresholds == {0, 40, 70, 100}

VARIABLES
    mode,       \* the implementation NewWithConfig returned ("none": no instance)
    cfg,        \* the Config given to New / NewWithConfig
    env,        \* the PostgreSQL and Redis servers that answer
    newErr,     \* the error New / NewWithConfig returned
    sessions,   \* SessionOnlyMemory.sessions (<<>> with the key absent)
    hasKey,     \* the keys of SessionOnlyMemory.sessions
    stats,      \* SessionOnlyMemory.stats
    mutex,      \* SessionOnlyMemory.mutex, a sync.RWMutex
    gor,        \* the goroutines calling one SessionOnlyMemory, each at a place in its call
    db,         \* agent_messages, by message_id
    summaries,  \* agent_summaries, by session_id, in insertion order
    cache,      \* Redis list session:<s>:messages, head first
    ttl,        \* ticks left before that key expires (0: no expiry)
    meta,       \* message_count of the hash session:<s>:meta (0: no such field)
    metaTtl,    \* whether the hash carries an expiry
    sumCache,   \* Redis string session:<s>:summary (0: none)
    clock,      \* the caller's time.Now()
    call,       \* the running caller's current (or last returned) Memory call
    peer,       \* the same for a second caller, waiting to be scheduled
    repop,      \* the repopulateRedisCache goroutines in flight
    nsum,       \* summaries the chat model has generated so far
    inserted,   \* history: messages of the AddMessage calls that returned nil, since the last clear
    faults      \* history: tier commands that failed and keys that expired so far

vars == <<mode, cfg, env, newErr, sessions, hasKey, stats, db, summaries, cache, ttl, meta, metaTtl,
          sumCache, clock, call, peer, repop, nsum, inserted, faults, mutex, gor>>

newVars == <<mode, cfg, env, newErr>>
lockVars == <<mutex, gor>>
soVars == <<sessions, hasKey, stats>>
redisVars == <<cache, ttl, meta, metaTtl, sumCache>>

\* ---------------------------------------------------------------- helpers
Min(a, b) == IF a < b THEN a ELSE b

Take(seq, n) == SubSeq(seq, 1, Min(n, Len(seq)))
LastN(seq, n) == SubSeq(seq, Len(seq) - Min(n, Len(seq)) + 1, Len(seq))

Reverse(seq) == [i \in 1..Len(seq) |-> seq[Len(seq) + 1 - i]]

\* Message.Content: every AddMessage call carries a text of its own, the t-th call text t
Text(t) == t

\* the text t has t characters
TextLen(t) == t

Msg(i, s, c, t) == [id |-> i, session |-> s, content |-> c, ts |-> t]

NoRow == [session |-> "", content |-> 0, ts |-> 0, emb |-> FALSE]
NoStats == [total |-> -1, session |-> -1, hasSummary |-> FALSE]

\* a goroutine that is in no call of the instance
NoCall == [op |-> "none", pc |-> "idle", s |-> "", id |-> ""]

Idle == [op |-> "none", pc |-> "done", s |-> "", id |-> "", content |-> 0, limit |-> 0,
         ts |-> 0, err |-> "nil", derr |-> FALSE, cerr |-> FALSE, miss |-> FALSE,
         msgs |-> <<>>, stat |-> NoStats, sum |-> 0, afterClear |-> FALSE,
         eerr |-> FALSE, q |-> 0, th |-> 0, hits |-> <<>>, mt |-> 0, given |-> 0]

Ready == call.pc = "done"

\* the caller's previous call was a ClearSession of s that returned nil
JustCleared(s) == call.op = "ClearSession" /\ call.s = s /\ call.err = "nil"

\* a command to a tier succeeds or fails
Outcome == IF faults < MaxFaults THEN BOOLEAN ELSE {TRUE}
Cost(ok) == IF ok THEN 0 ELSE 1

Return(c, e) == [c EXCEPT !.pc = "done", !.err = e]


\* ------------------------------------------------------------ construction
\* pgxpool.ParseConfig: an empty connection string is the libpq defaults
PgTarget(url) == IF url = "" THEN "localhost:5432" ELSE url
\* redis.NewClient: an empty Addr is localhost:6379
RedisTarget(addr) == IF addr = "" THEN "localhost:6379" ELSE addr

\* NewSupabaseMemory: the error it returns ("nil": an instance)
NewSupabaseMemory(c, e) ==
    IF c.DatabaseURL = "::" THEN "parse"
    ELSE IF PgTarget(c.DatabaseURL) \notin e.pg THEN "schema"
    ELSE "nil"

\* NewHybridMemory: NewSupabaseMemory, then a PING of the Redis client
NewHybridMemory(c, e) ==
    IF NewSupabaseMemory(c, e) # "nil" THEN "supabase"
    ELSE IF RedisTarget(c.RedisAddr) \notin e.redis THEN "redis"
    ELSE "nil"

\* the implementation NewWithConfig's switch selects
Selected(c) ==
    IF c.Mode \in Modes THEN c.Mode
    ELSE IF c.RedisAddr # "" /\ c.DatabaseURL # "" THEN "hybrid"
    ELSE IF c.DatabaseURL # "" THEN "persistent"
    ELSE "session_only"

\* the error of the selected constructor
Constructed(c, e) ==
    IF Selected(c) = "session_only" THEN "nil"
    ELSE IF Selected(c) = "persistent" THEN NewSupabaseMemory(c, e)
    ELSE NewHybridMemory(c, e)

NewWithConfig ==
    /\ mode = "none" /\ newErr = "nil"
    /\ newErr' = Constructed(cfg, env)
    /\ mode' = IF newErr' = "nil" THEN Selected(cfg) ELSE "none"
    /\ UNCHANGED <<cfg, env, lockVars, soVars, db, summaries, redisVars, clock, call, peer, repop, nsum,
                   inserted, faults>>

\* New: an unset Mode is chosen from the addresses given, then NewWithConfig
ModeOf(c) ==
    IF c.Mode # "" THEN c.Mode
    ELSE IF c.RedisAddr # "" THEN "hybrid"
    ELSE IF c.DatabaseURL # "" THEN "persistent"
    ELSE "session_only"

New ==
    /\ mode = "none" /\ newErr = "nil"
    /\ LET c == [cfg EXCEPT !.Mode = ModeOf(cfg)]
       IN  /\ newErr' = Constructed(c, env)
           /\ mode' = IF newErr' = "nil" THEN Selected(c) ELSE "none"
    /\ UNCHANGED <<cfg, env, lockVars, soVars, db, summaries, redisVars, clock, call, peer, repop, nsum,
                   inserted, faults>>

\* ------------------------------------------------------ SessionOnlyMemory
\* updateStats: recompute the entry of a session that has a message list
updateStats(st, sess, keys, s) ==
    IF s \notin keys THEN st
    ELSE [st EXCEPT ![s] = [total |-> Len(sess[s]), session |-> Len(sess[s]),
                            hasSummary |-> FALSE]]

\* the list AddMessage leaves: append, then keep the most recent MaxSessionMessages
SOAppend(list, m) ==
    LET l == Append(list, m)
    IN  IF Len(l) > MaxSessionMessages
        THEN SubSeq(l, Len(l) - MaxSessionMessages + 1, Len(l))
        ELSE l

\* an AddMessage that files a message without session ID under the first session
SO_AddMessageWithDefaultSession(s, i) ==
    /\ mode = "session_only" /\ Ready /\ clock <= MaxClock
    /\ LET to == IF s = "" THEN CHOOSE c \in Callers : TRUE ELSE s
           m == Msg(i, to, Text(clock), clock)
           sess == [sessions EXCEPT ![to] = SOAppend(sessions[to], m)]
           keys == hasKey \cup {to}
       IN  /\ sessions' = sess
           /\ hasKey' = keys
           /\ stats' = updateStats(stats, sess, keys, to)
           /\ inserted' = [inserted EXCEPT ![to] = Append(@, m)]
           /\ call' = [Idle EXCEPT !.op = "AddMessage", !.s = s, !.id = i,
                                   !.content = Text(clock), !.ts = clock]
    /\ clock' = clock + 1
    /\ UNCHANGED <<newVars, lockVars, peer, db, summaries, cache, ttl, meta, metaTtl, sumCache, repop, faults, nsum>>

\* AddMessage: a message without session ID is refused before anything is touched
SO_AddMessage(s, i) ==
    /\ mode = "session_only" /\ Ready /\ clock <= MaxClock
    /\ IF s = ""
       THEN /\ call' = [Idle EXCEPT !.op = "AddMessage", !.id = i, !.content = Text(clock),
                                    !.ts = clock, !.err = "nosession"]
            /\ UNCHANGED <<sessions, hasKey, stats, inserted>>
       ELSE LET m == Msg(i, s, Text(clock), clock)
                sess == [sessions EXCEPT ![s] = SOAppend(sessions[s], m)]
                keys == hasKey \cup {s}
            IN  /\ sessions' = sess
                /\ hasKey' = keys
                /\ stats' = updateStats(stats, sess, keys, s)
                /\ inserted' = [inserted EXCEPT ![s] = Append(@, m)]
                /\ call' = [Idle EXCEPT !.op = "AddMessage", !.s = s, !.id = i,
                                        !.content = Text(clock), !.ts = clock]
    /\ clock' = clock + 1
    /\ UNCHANGED <<newVars, lockVars, peer, db, summaries, cache, ttl, meta, metaTtl, sumCache, repop, faults, nsum>>

\* Store: the same as AddMessage
SO_Store(s, i) ==
    /\ mode = "session_only" /\ Ready /\ clock <= MaxClock
    /\ IF s = ""
       THEN /\ call' = [Idle EXCEPT !.op = "Store", !.id = i, !.content = Text(clock),
                                    !.ts = clock, !.err = "nosession"]
            /\ UNCHANGED <<sessions, hasKey, stats, inserted>>
       ELSE LET m == Msg(i, s, Text(clock), clock)
                sess == [sessions EXCEPT ![s] = SOAppend(sessions[s], m)]
                keys == hasKey \cup {s}
            IN  /\ sessions' = sess
                /\ hasKey' = keys
                /\ stats' = updateStats(stats, sess, keys, s)
                /\ inserted' = [inserted EXCEPT ![s] = Append(@, m)]
                /\ call' = [Idle EXCEPT !.op = "Store", !.s = s, !.id = i,
                                        !.content = Text(clock), !.ts = clock]
    /\ clock' = clock + 1
    /\ UNCHANGED <<newVars, lockVars, peer, db, summaries, cache, ttl, meta, metaTtl, sumCache, repop, faults, nsum>>

\* the slice GetRecentMessages copies; a negative limit makes make() panic
SORecent(list, limit) ==
    LET start == IF Len(list) > limit THEN Len(list) - limit ELSE 0
    IN  SubSeq(list, start + 1, Len(list))

SO_GetRecentMessages(s, l) ==
    /\ mode = "session_only" /\ Ready
    /\ LET c == [Idle EXCEPT !.op = "GetRecentMessages", !.s = s, !.limit = l,
                              !.afterClear = JustCleared(s)]
       IN  call' = IF s \notin hasKey THEN c
                   ELSE IF Len(sessions[s]) > l /\ l < 0 THEN [c EXCEPT !.err = "panic"]
                   ELSE [c EXCEPT !.msgs = SORecent(sessions[s], l)]
    /\ UNCHANGED <<newVars, lockVars, peer, sessions, hasKey, stats, db, summaries, cache, ttl, meta, metaTtl,
                   sumCache, clock, repop, inserted, faults, nsum>>

SO_ClearSession(s) ==
    /\ mode = "session_only" /\ Ready
    /\ sessions' = [sessions EXCEPT ![s] = <<>>]
    /\ hasKey' = hasKey \ {s}
    /\ stats' = [stats EXCEPT ![s] = NoStats]
    /\ inserted' = [inserted EXCEPT ![s] = <<>>]
    /\ call' = [Idle EXCEPT !.op = "ClearSession", !.s = s]
    /\ UNCHANGED <<newVars, lockVars, peer, db, summaries, cache, ttl, meta, metaTtl, sumCache, clock, repop,
                   faults, nsum>>

\* GetStats: the cached entry, else updateStats and whatever the map holds then
SO_GetStats(s) ==
    /\ mode = "session_only" /\ Ready
    /\ stats' = IF stats[s] # NoStats THEN stats ELSE updateStats(stats, sessions, hasKey, s)
    /\ call' = [Idle EXCEPT !.op = "GetStats", !.s = s, !.stat = stats'[s]]
    /\ UNCHANGED <<newVars, lockVars, peer, sessions, hasKey, db, summaries, cache, ttl, meta, metaTtl, sumCache,
                   clock, repop, inserted, faults, nsum>>

\* Summarize: a text counting the session's messages; no message is an error
SO_Summarize(s) ==
    /\ mode = "session_only" /\ Ready
    /\ call' = IF s \notin hasKey \/ Len(sessions[s]) = 0
               THEN [Idle EXCEPT !.op = "Summarize", !.s = s, !.err = "nomessages"]
               ELSE [Idle EXCEPT !.op = "Summarize", !.s = s, !.sum = Len(sessions[s])]
    /\ UNCHANGED <<newVars, lockVars, peer, sessions, hasKey, stats, db, summaries, cache, ttl, meta, metaTtl,
                   sumCache, clock, repop, inserted, faults, nsum>>

\* GetSummary: a Summary built from the session's messages; no message is an error
SO_GetSummary(s) ==
    /\ mode = "session_only" /\ Ready
    /\ call' = IF s \notin hasKey \/ Len(sessions[s]) = 0
               THEN [Idle EXCEPT !.op = "GetSummary", !.s = s, !.err = "nomessages"]
               ELSE [Idle EXCEPT !.op = "GetSummary", !.s = s, !.sum = Len(sessions[s]),
                                 !.msgs = <<sessions[s][1], sessions[s][Len(sessions[s])]>>]
    /\ UNCHANGED <<newVars, lockVars, peer, sessions, hasKey, stats, db, summaries, cache, ttl, meta, metaTtl,
                   sumCache, clock, repop, inserted, faults, nsum>>

\* ------------------------------------- SessionOnlyMemory, under its mutex
\* sync.RWMutex: readers counts the goroutines that hold the read lock; w is the
\* goroutine that has called Lock and got past the other writers, which from
\* that moment makes every RLock wait.
WriteOps == {"AddMessage", "ClearSession"}
ReadOps == {"GetRecentMessages", "Summarize", "GetSummary", "GetStats"}

\* RLock: granted at once unless a writer holds the lock or waits for it
RLockOf(g, held, wait) ==
    IF mutex.w = "none"
    THEN /\ mutex' = [mutex EXCEPT !.readers = @ + 1]
         /\ gor' = [gor EXCEPT ![g].pc = held]
    ELSE /\ mutex' = mutex
         /\ gor' = [gor EXCEPT ![g].pc = wait]

\* RUnlock by g, which goes on at place pc
RUnlockOf(g, pc) ==
    /\ mutex' = [mutex EXCEPT !.readers = @ - 1]
    /\ gor' = [gor EXCEPT ![g] = IF pc = "idle" THEN NoCall ELSE [@ EXCEPT !.pc = pc]]

\* Unlock by g: the RLock calls that were made to wait are granted together
UnlockOf(g) ==
    LET woken == {h \in Goroutines : gor[h].pc \in {"rwait", "rwait2"}}
    IN  /\ mutex' = [readers |-> mutex.readers + Cardinality(woken), w |-> "none"]
        /\ gor' = [h \in Goroutines |->
                      IF h = g THEN NoCall
                      ELSE IF gor[h].pc = "rwait" THEN [gor[h] EXCEPT !.pc = "rheld"]
                      ELSE IF gor[h].pc = "rwait2" THEN [gor[h] EXCEPT !.pc = "rheld2"]
                      ELSE gor[h]]

\* a goroutine calls a method of the instance and reaches the method's first
\* statement, sm.mutex.Lock() or sm.mutex.RLock()
GoCall(g, op, s, i) ==
    /\ mode = "session_only" /\ gor[g] = NoCall
    /\ op = "AddMessage" => clock <= MaxClock
    /\ gor' = [gor EXCEPT ![g] = [op |-> op, s |-> s,
                                  id |-> IF op = "AddMessage" THEN i ELSE "",
                                  pc |-> IF op \in WriteOps THEN "lock" ELSE "rlock"]]
    /\ UNCHANGED <<newVars, mutex, soVars, db, summaries, redisVars, clock, call, peer, repop,
                   nsum, inserted, faults>>

\* Lock, first half: g is the writer now, new readers wait
GoLock(g) ==
    /\ gor[g].pc = "lock" /\ mutex.w = "none"
    /\ mutex' = [mutex EXCEPT !.w = g]
    /\ gor' = [gor EXCEPT ![g].pc = "drain"]
    /\ UNCHANGED <<newVars, soVars, db, summaries, redisVars, clock, call, peer, repop, nsum,
                   inserted, faults>>

\* Lock, second half: the readers that held the lock have all released it
GoLocked(g) ==
    /\ gor[g].pc = "drain" /\ mutex.readers = 0
    /\ gor' = [gor EXCEPT ![g].pc = "held"]
    /\ UNCHANGED <<newVars, mutex, soVars, db, summaries, redisVars, clock, call, peer, repop,
                   nsum, inserted, faults>>

\* AddMessage from after Lock to the deferred Unlock
GoAddMessage(g) ==
    /\ gor[g].pc = "held" /\ gor[g].op = "AddMessage"
    /\ LET s == gor[g].s
           m == Msg(gor[g].id, s, Text(clock), clock)
           sess == [sessions EXCEPT ![s] = SOAppend(sessions[s], m)]
           keys == hasKey \cup {s}
       IN  /\ sessions' = sess
           /\ hasKey' = keys
           /\ stats' = updateStats(stats, sess, keys, s)
           /\ inserted' = [inserted EXCEPT ![s] = Append(@, m)]
    /\ clock' = clock + 1
    /\ UnlockOf(g)
    /\ UNCHANGED <<newVars, db, summaries, redisVars, call, peer, repop, nsum, faults>>

\* a ClearSession that deletes the session's list and leaves its stats entry
GoClearSessionKeepingStats(g) ==
    /\ gor[g].pc = "held" /\ gor[g].op = "ClearSession"
    /\ sessions' = [sessions EXCEPT ![gor[g].s] = <<>>]
    /\ hasKey' = hasKey \ {gor[g].s}
    /\ stats' = stats
    /\ inserted' = [inserted EXCEPT ![gor[g].s] = <<>>]
    /\ UnlockOf(g)
    /\ UNCHANGED <<newVars, db, summaries, redisVars, clock, call, peer, repop, nsum, faults>>

\* ClearSession from after Lock to the deferred Unlock
GoClearSession(g) ==
    /\ gor[g].pc = "held" /\ gor[g].op = "ClearSession"
    /\ sessions' = [sessions EXCEPT ![gor[g].s] = <<>>]
    /\ hasKey' = hasKey \ {gor[g].s}
    /\ stats' = [stats EXCEPT ![gor[g].s] = NoStats]
    /\ inserted' = [inserted EXCEPT ![gor[g].s] = <<>>]
    /\ UnlockOf(g)
    /\ UNCHANGED <<newVars, db, summaries, redisVars, clock, call, peer, repop, nsum, faults>>

\* the RLock that opens GetRecentMessages, Summarize, GetSummary and GetStats
GoRLock(g) ==
    /\ gor[g].pc = "rlock"
    /\ RLockOf(g, "rheld", "rwait")
    /\ UNCHANGED <<newVars, soVars, db, summaries, redisVars, clock, call, peer, repop, nsum,
                   inserted, faults>>

\* GetRecentMessages and Summarize from after RLock to the deferred RUnlock: they
\* read the session's list and write nothing
GoRead(g) ==
    /\ gor[g].pc = "rheld" /\ gor[g].op \in {"GetRecentMessages", "Summarize"}
    /\ RUnlockOf(g, "idle")
    /\ UNCHANGED <<newVars, soVars, db, summaries, redisVars, clock, call, peer, repop, nsum,
                   inserted, faults>>

\* GetStats from after RLock to the deferred RUnlock
GoGetStats(g) ==
    /\ gor[g].pc = "rheld" /\ gor[g].op = "GetStats"
    /\ stats' = IF stats[gor[g].s] # NoStats THEN stats
                ELSE updateStats(stats, sessions, hasKey, gor[g].s)
    /\ RUnlockOf(g, "idle")
    /\ UNCHANGED <<newVars, sessions, hasKey, db, summaries, redisVars, clock, call, peer, repop,
                   nsum, inserted, faults>>

\* GetSummary from after RLock: without messages it returns the error (and the
\* deferred RUnlock runs); with messages it calls sm.Summarize, whose first
\* statement is RLock on the mutex the goroutine already read-holds
GoGetSummary(g) ==
    /\ gor[g].pc = "rheld" /\ gor[g].op = "GetSummary"
    /\ IF gor[g].s \notin hasKey \/ Len(sessions[gor[g].s]) = 0
       THEN RUnlockOf(g, "idle")
       ELSE /\ gor' = [gor EXCEPT ![g].pc = "rlock2"]
            /\ mutex' = mutex
    /\ UNCHANGED <<newVars, soVars, db, summaries, redisVars, clock, call, peer, repop, nsum,
                   inserted, faults>>

\* the RLock of the Summarize that GetSummary calls
GoInnerRLock(g) ==
    /\ gor[g].pc = "rlock2"
    /\ RLockOf(g, "rheld2", "rwait2")
    /\ UNCHANGED <<newVars, soVars, db, summaries, redisVars, clock, call, peer, repop, nsum,
                   inserted, faults>>

\* that Summarize from after its RLock to its deferred RUnlock
GoInnerSummarize(g) ==
    /\ gor[g].pc = "rheld2"
    /\ RUnlockOf(g, "rest")
    /\ UNCHANGED <<newVars, soVars, db, summaries, redisVars, clock, call, peer, repop, nsum,
                   inserted, faults>>

\* GetSummary from the return of Summarize to its own deferred RUnlock
GoGetSummaryReturn(g) ==
    /\ gor[g].pc = "rest"
    /\ RUnlockOf(g, "idle")
    /\ UNCHANGED <<newVars, soVars, db, summaries, redisVars, clock, call, peer, repop, nsum,
                   inserted, faults>>

\* the steps of goroutine g inside a call
GoStep(g) ==
    \/ GoLock(g)
    \/ GoLocked(g)
    \/ GoAddMessage(g)
    \/ GoClearSession(g)
    \/ GoRLock(g)
    \/ GoRead(g)
    \/ GoGetStats(g)
    \/ GoGetSummary(g)
    \/ GoInnerRLock(g)
    \/ GoInnerSummarize(g)
    \/ GoGetSummaryReturn(g)

\* --------------------------------------------------------- SupabaseMemory
\* INSERT ... ON CONFLICT (message_id) DO UPDATE SET content, metadata, embedding:
\* a new row takes every column, an existing row keeps session_id and created_at
PgUpsert(d, m, emb) ==
    IF d[m.id] = NoRow
    THEN [d EXCEPT ![m.id] = [session |-> m.session, content |-> m.content,
                              ts |-> m.ts, emb |-> emb]]
    ELSE [d EXCEPT ![m.id].content = m.content, ![m.id].emb = emb]

\* DELETE FROM agent_messages WHERE session_id = $1
PgDeleteSession(d, s) ==
    [i \in Ids |-> IF d[i].session = s THEN NoRow ELSE d[i]]

RowsOf(d, s) == {i \in Ids : d[i] # NoRow /\ d[i].session = s}

RowMsg(d, i) == Msg(i, d[i].session, d[i].content, d[i].ts)

\* ORDER BY created_at DESC
RECURSIVE OrderByCreatedDesc(_, _)
OrderByCreatedDesc(d, S) ==
    IF S = {} THEN <<>>
    ELSE LET i == CHOOSE x \in S : \A y \in S : d[y].ts <= d[x].ts
         IN  <<RowMsg(d, i)>> \o OrderByCreatedDesc(d, S \ {i})

\* the newest `limit` rows in the query's own order, newest first
PgRecentDesc(d, s, limit) ==
    LET n == IF limit <= 0 THEN DefaultRecentLimit ELSE limit
    IN  Take(OrderByCreatedDesc(d, RowsOf(d, s)), n)

\* SupabaseMemory.GetRecentMessages: the newest `limit` rows, reversed to oldest first
PgRecent(d, s, limit) ==
    LET n == IF limit <= 0 THEN DefaultRecentLimit ELSE limit
    IN  Reverse(Take(OrderByCreatedDesc(d, RowsOf(d, s)), n))

\* SupabaseMemory.GetStats: the aggregate row is scanned into TotalMessages,
\* SessionMessages (the COUNT(DISTINCT session_id) column), ...; HasSummary is never set
PgStats(d, s) ==
    [total |-> Cardinality(RowsOf(d, s)),
     session |-> IF RowsOf(d, s) = {} THEN 0 ELSE 1,
     hasSummary |-> FALSE]

\* a caller starts a call of SupabaseMemory or HybridMemory
BeginAddMessage(s, i) ==
    /\ mode # "session_only" /\ Ready /\ clock <= MaxClock
    /\ call' = [Idle EXCEPT !.op = "AddMessage", !.pc = "durable", !.s = s, !.id = i,
                            !.content = Text(clock), !.ts = clock]
    /\ clock' = clock + 1
    /\ UNCHANGED <<newVars, lockVars, peer, soVars, db, summaries, redisVars, repop, inserted, faults, nsum>>

BeginGetRecentMessages(s, l) ==
    /\ mode # "session_only" /\ Ready
    /\ mode = "hybrid" => Len(repop) < MaxRepop
    /\ call' = [Idle EXCEPT !.op = "GetRecentMessages", !.s = s,
                            !.pc = IF mode = "hybrid" THEN "lrange" ELSE "durable",
                            !.limit = l, !.afterClear = JustCleared(s)]
    /\ UNCHANGED <<newVars, lockVars, peer, soVars, db, summaries, redisVars, clock, repop, inserted,
                   faults, nsum>>

\* a GetRecentMessages that starts while a repopulation goroutine started by an
\* earlier cache miss is still running
BeginGetRecentMessagesDuringRepopulation(s, l) ==
    /\ mode = "hybrid" /\ Ready
    /\ repop # <<>> /\ Len(repop) <= MaxRepop
    /\ call' = [Idle EXCEPT !.op = "GetRecentMessages", !.s = s, !.pc = "lrange",
                            !.limit = l, !.afterClear = JustCleared(s)]
    /\ UNCHANGED <<newVars, lockVars, peer, soVars, db, summaries, redisVars, clock, repop, inserted,
                   faults, nsum>>

BeginClearSession(s) ==
    /\ mode # "session_only" /\ Ready
    /\ call' = [Idle EXCEPT !.op = "ClearSession", !.s = s,
                            !.pc = IF mode = "hybrid" THEN "del" ELSE "durable"]
    /\ UNCHANGED <<newVars, lockVars, peer, soVars, db, summaries, redisVars, clock, repop, inserted,
                   faults, nsum>>

CallMsg == Msg(call.id, call.s, call.content, call.ts)

\* an AddMessage that pushes the message onto the Redis list while the durable
\* write is still under way
AddDurableWhileCaching ==
    /\ call.op = "AddMessage" /\ call.pc = "durable"
    /\ \E embOk \in Outcome, execOk \in Outcome :
        /\ Cost(embOk) + Cost(execOk) <= MaxFaults - faults
        /\ db' = IF execOk THEN PgUpsert(db, CallMsg, embOk) ELSE db
        /\ faults' = faults + Cost(embOk) + Cost(execOk)
        /\ call' = IF mode = "hybrid"
                   THEN [call EXCEPT !.pc = "ltrim", !.derr = ~execOk, !.eerr = ~embOk]
                   ELSE [Return(call, IF execOk THEN "nil" ELSE "durable")
                             EXCEPT !.derr = ~execOk, !.eerr = ~embOk]
        /\ inserted' = IF mode = "persistent" /\ execOk
                       THEN [inserted EXCEPT ![call.s] = Append(@, CallMsg)]
                       ELSE inserted
    /\ cache' = IF mode = "hybrid" THEN [cache EXCEPT ![call.s] = <<CallMsg>> \o @] ELSE cache
    /\ UNCHANGED <<newVars, lockVars, peer, soVars, summaries, ttl, meta, metaTtl, sumCache, clock, repop,
                   nsum>>

\* SupabaseMemory.AddMessage: the embedding call may fail (the row is then written
\* with a NULL embedding), the INSERT may fail.  HybridMemory.AddMessage logs the
\* error and goes on to Redis.
AddDurable ==
    /\ call.op = "AddMessage" /\ call.pc = "durable"
    /\ \E embOk \in Outcome, execOk \in Outcome :
        /\ Cost(embOk) + Cost(execOk) <= MaxFaults - faults
        /\ db' = IF execOk THEN PgUpsert(db, CallMsg, embOk) ELSE db
        /\ faults' = faults + Cost(embOk) + Cost(execOk)
        /\ call' = IF mode = "hybrid"
                   THEN [call EXCEPT !.pc = "lpush", !.derr = ~execOk, !.eerr = ~embOk]
                   ELSE [Return(call, IF execOk THEN "nil" ELSE "durable")
                             EXCEPT !.derr = ~execOk, !.eerr = ~embOk]
        /\ inserted' = IF mode = "persistent" /\ execOk
                       THEN [inserted EXCEPT ![call.s] = Append(@, CallMsg)]
                       ELSE inserted
    /\ UNCHANGED <<newVars, lockVars, peer, soVars, summaries, redisVars, clock, repop, nsum>>

\* Store: SupabaseMemory.AddMessage, for HybridMemory too (no Redis command)
BeginStore(s, i) ==
    /\ mode # "session_only" /\ Ready /\ clock <= MaxClock
    /\ call' = [Idle EXCEPT !.op = "Store", !.pc = "durable", !.s = s, !.id = i,
                            !.content = Text(clock), !.ts = clock]
    /\ clock' = clock + 1
    /\ UNCHANGED <<newVars, lockVars, peer, soVars, db, summaries, redisVars, repop, inserted, faults, nsum>>

StoreDurable ==
    /\ call.op = "Store" /\ call.pc = "durable"
    /\ \E embOk \in Outcome, execOk \in Outcome :
        /\ Cost(embOk) + Cost(execOk) <= MaxFaults - faults
        /\ db' = IF execOk THEN PgUpsert(db, CallMsg, embOk) ELSE db
        /\ faults' = faults + Cost(embOk) + Cost(execOk)
        /\ call' = [Return(call, IF execOk THEN "nil" ELSE "durable")
                        EXCEPT !.derr = ~execOk, !.eerr = ~embOk]
        /\ inserted' = IF execOk THEN [inserted EXCEPT ![call.s] = Append(@, CallMsg)]
                       ELSE inserted
    /\ UNCHANGED <<newVars, lockVars, peer, soVars, summaries, redisVars, clock, repop, nsum>>

\* HybridMemory.GetRecentMessages: limit <= 0 means maxSessionMessages
HybridLimit(l) == IF mode = "hybrid" /\ l <= 0 THEN MaxSessionMessages ELSE l

\* SupabaseMemory.GetRecentMessages, and HybridMemory's fallback to it, which
\* starts the repopulation goroutine with the messages read
GetDurable ==
    /\ call.op = "GetRecentMessages" /\ call.pc = "durable"
    /\ \E ok \in Outcome :
        /\ faults' = faults + Cost(ok)
        /\ IF ok
           THEN LET ms == PgRecent(db, call.s, HybridLimit(call.limit))
                IN  /\ call' = [Return(call, "nil") EXCEPT !.msgs = ms]
                    /\ repop' = IF mode = "hybrid"
                                THEN Append(repop, [s |-> call.s, msgs |-> ms,
                                                    pc |-> "del", i |-> Len(ms)])
                                ELSE repop
           ELSE /\ call' = [Return(call, "durable") EXCEPT !.derr = TRUE]
                /\ repop' = repop
    /\ UNCHANGED <<newVars, lockVars, peer, soVars, db, summaries, redisVars, clock, inserted, nsum>>

\* a ClearSession that deletes the session's summaries with its messages
ClearDurableWithSummaries ==
    /\ call.op = "ClearSession" /\ call.pc = "durable"
    /\ \E ok \in Outcome :
        /\ db' = IF ok THEN PgDeleteSession(db, call.s) ELSE db
        /\ summaries' = IF ok THEN [summaries EXCEPT ![call.s] = <<>>] ELSE summaries
        /\ faults' = faults + Cost(ok)
        /\ call' = [Return(call, IF ok THEN "nil" ELSE "durable") EXCEPT !.derr = ~ok]
    /\ inserted' = [inserted EXCEPT ![call.s] = <<>>]
    /\ UNCHANGED <<newVars, lockVars, peer, soVars, redisVars, clock, repop, nsum>>

\* SupabaseMemory.ClearSession, the last command of HybridMemory.ClearSession too
ClearDurable ==
    /\ call.op = "ClearSession" /\ call.pc = "durable"
    /\ \E ok \in Outcome :
        /\ db' = IF ok THEN PgDeleteSession(db, call.s) ELSE db
        /\ faults' = faults + Cost(ok)
        /\ call' = [Return(call, IF ok THEN "nil" ELSE "durable") EXCEPT !.derr = ~ok]
    /\ inserted' = [inserted EXCEPT ![call.s] = <<>>]
    /\ UNCHANGED <<newVars, lockVars, peer, soVars, summaries, redisVars, clock, repop, nsum>>

\* ----------------------------------------------------------- HybridMemory
\* Redis commands on the list key: the value of the list after the command
LPush(list, m) == <<m>> \o list
\* LTRIM key 0 stop
LTrim(list, stop) == SubSeq(list, 1, Min(stop + 1, Len(list)))
\* LRANGE key 0 stop
LRange(list, stop) == SubSeq(list, 1, Min(stop + 1, Len(list)))

\* LPUSH of the serialized message; its error is returned to the caller
AddLPush ==
    /\ call.op = "AddMessage" /\ call.pc = "lpush"
    /\ \E ok \in Outcome :
        /\ cache' = IF ok THEN [cache EXCEPT ![call.s] = LPush(@, CallMsg)] ELSE cache
        /\ faults' = faults + Cost(ok)
        /\ call' = IF ok THEN [call EXCEPT !.pc = "ltrim"]
                   ELSE [Return(call, "redis") EXCEPT !.cerr = TRUE]
    /\ UNCHANGED <<newVars, lockVars, peer, soVars, db, summaries, ttl, meta, metaTtl, sumCache, clock, repop,
                   inserted, nsum>>

\* LTRIM to maxSessionMessages; a failure is logged
AddLTrim ==
    /\ call.op = "AddMessage" /\ call.pc = "ltrim"
    /\ \E ok \in Outcome :
        /\ cache' = IF ok THEN [cache EXCEPT ![call.s] = LTrim(@, MaxSessionMessages - 1)]
                    ELSE cache
        /\ faults' = faults + Cost(ok)
        /\ call' = [call EXCEPT !.pc = "expire", !.cerr = @ \/ ~ok]
    /\ UNCHANGED <<newVars, lockVars, peer, soVars, db, summaries, ttl, meta, metaTtl, sumCache, clock, repop,
                   inserted, nsum>>

\* an EXPIRE that leaves an expiry the key already carries as it is
AddExpireKeepingExpiry ==
    /\ call.op = "AddMessage" /\ call.pc = "expire"
    /\ \E ok \in Outcome :
        /\ ttl' = IF ok /\ cache[call.s] # <<>> /\ ttl[call.s] = 0
                  THEN [ttl EXCEPT ![call.s] = SessionTTL] ELSE ttl
        /\ faults' = faults + Cost(ok)
        /\ call' = [call EXCEPT !.pc = "meta", !.cerr = @ \/ ~ok]
    /\ UNCHANGED <<newVars, lockVars, peer, soVars, db, summaries, cache, meta, metaTtl, sumCache, clock, repop,
                   inserted, nsum>>

\* EXPIRE of the list key (no effect on a key that does not exist); a failure is logged
AddExpire ==
    /\ call.op = "AddMessage" /\ call.pc = "expire"
    /\ \E ok \in Outcome :
        /\ ttl' = IF ok /\ cache[call.s] # <<>> THEN [ttl EXCEPT ![call.s] = SessionTTL] ELSE ttl
        /\ faults' = faults + Cost(ok)
        /\ call' = [call EXCEPT !.pc = "meta", !.cerr = @ \/ ~ok]
    /\ UNCHANGED <<newVars, lockVars, peer, soVars, db, summaries, cache, meta, metaTtl, sumCache, clock, repop,
                   inserted, nsum>>

\* HSET, HINCRBY message_count, HINCRBY total_tokens, EXPIRE of the meta hash, all
\* unchecked; then AddMessage returns nil
AddMeta ==
    /\ call.op = "AddMessage" /\ call.pc = "meta"
    /\ \E incrOk \in Outcome, expOk \in Outcome :
        /\ Cost(incrOk) + Cost(expOk) <= MaxFaults - faults
        /\ meta' = IF incrOk THEN [meta EXCEPT ![call.s] = @ + 1] ELSE meta
        /\ metaTtl' = IF expOk /\ meta'[call.s] > 0 THEN [metaTtl EXCEPT ![call.s] = TRUE]
                      ELSE metaTtl
        /\ faults' = faults + Cost(incrOk) + Cost(expOk)
        /\ call' = [Return(call, "nil") EXCEPT !.cerr = @ \/ ~incrOk \/ ~expOk]
    /\ inserted' = [inserted EXCEPT ![call.s] = Append(@, CallMsg)]
    /\ UNCHANGED <<newVars, lockVars, peer, soVars, db, summaries, cache, ttl, sumCache, clock, repop, nsum>>

\* LRANGE 0 limit-1: a non-empty reply is reversed into chronological order and
\* returned; an error or an empty reply falls through to Supabase
GetLRange ==
    /\ call.op = "GetRecentMessages" /\ call.pc = "lrange"
    /\ \E ok \in Outcome :
        /\ faults' = faults + Cost(ok)
        /\ LET results == LRange(cache[call.s], HybridLimit(call.limit) - 1)
           IN  call' = IF ok /\ Len(results) > 0
                       THEN [Return(call, "nil") EXCEPT !.msgs = Reverse(results)]
                       ELSE [call EXCEPT !.pc = "durable", !.cerr = ~ok, !.miss = TRUE]
    /\ UNCHANGED <<newVars, lockVars, peer, soVars, db, summaries, redisVars, clock, repop, inserted, nsum>>

\* DEL of the list key and the meta hash, unchecked
ClearDel ==
    /\ call.op = "ClearSession" /\ call.pc = "del"
    /\ \E ok \in Outcome :
        /\ cache' = IF ok THEN [cache EXCEPT ![call.s] = <<>>] ELSE cache
        /\ ttl' = IF ok THEN [ttl EXCEPT ![call.s] = 0] ELSE ttl
        /\ meta' = IF ok THEN [meta EXCEPT ![call.s] = 0] ELSE meta
        /\ metaTtl' = IF ok THEN [metaTtl EXCEPT ![call.s] = FALSE] ELSE metaTtl
        /\ faults' = faults + Cost(ok)
        /\ call' = [call EXCEPT !.pc = "durable", !.cerr = ~ok]
    /\ UNCHANGED <<newVars, lockVars, peer, soVars, db, summaries, sumCache, clock, repop, inserted, nsum>>

\* repopulateRedisCache: DEL, then LPUSH messages[len-1] .. messages[0], then EXPIRE;
\* no reply is checked.  k is the goroutine's place among those in flight.
RepopPut(k, task) == [repop EXCEPT ![k] = task]
RepopEnd(k) == SubSeq(repop, 1, k - 1) \o SubSeq(repop, k + 1, Len(repop))

RepopDel(k) ==
    /\ k <= Len(repop) /\ repop[k].pc = "del"
    /\ \E ok \in Outcome :
        /\ cache' = IF ok THEN [cache EXCEPT ![repop[k].s] = <<>>] ELSE cache
        /\ ttl' = IF ok THEN [ttl EXCEPT ![repop[k].s] = 0] ELSE ttl
        /\ faults' = faults + Cost(ok)
    /\ repop' = RepopPut(k, [repop[k] EXCEPT !.pc = IF repop[k].i >= 1 THEN "lpush"
                                                   ELSE "expire"])
    /\ UNCHANGED <<newVars, lockVars, peer, soVars, db, summaries, meta, metaTtl, sumCache, clock, call, inserted, nsum>>

RepopLPush(k) ==
    /\ k <= Len(repop) /\ repop[k].pc = "lpush"
    /\ LET task == repop[k]
       IN  /\ \E ok \in Outcome :
                /\ cache' = IF ok THEN [cache EXCEPT ![task.s] = LPush(@, task.msgs[task.i])]
                            ELSE cache
                /\ faults' = faults + Cost(ok)
           /\ repop' = RepopPut(k, [task EXCEPT !.i = @ - 1,
                                                !.pc = IF task.i - 1 >= 1 THEN "lpush"
                                                       ELSE "expire"])
    /\ UNCHANGED <<newVars, lockVars, peer, soVars, db, summaries, ttl, meta, metaTtl, sumCache, clock, call,
                   inserted, nsum>>

RepopExpire(k) ==
    /\ k <= Len(repop) /\ repop[k].pc = "expire"
    /\ \E ok \in Outcome :
        /\ ttl' = IF ok /\ cache[repop[k].s] # <<>> THEN [ttl EXCEPT ![repop[k].s] = SessionTTL]
                  ELSE ttl
        /\ faults' = faults + Cost(ok)
    /\ repop' = RepopEnd(k)
    /\ UNCHANGED <<newVars, lockVars, peer, soVars, db, summaries, cache, meta, metaTtl, sumCache, clock, call,
                   inserted, nsum>>

\* the list key's TTL elapses: Redis expires the key
TTLExpire(s) ==
    /\ ttl[s] > 0 /\ faults < MaxFaults
    /\ cache' = [cache EXCEPT ![s] = <<>>]
    /\ ttl' = [ttl EXCEPT ![s] = 0]
    /\ faults' = faults + 1
    /\ UNCHANGED <<newVars, lockVars, peer, soVars, db, summaries, meta, metaTtl, sumCache, clock, call, repop,
                   inserted, nsum>>

MetaExpire(s) ==
    /\ metaTtl[s] /\ faults < MaxFaults
    /\ meta' = [meta EXCEPT ![s] = 0]
    /\ metaTtl' = [metaTtl EXCEPT ![s] = FALSE]
    /\ faults' = faults + 1
    /\ UNCHANGED <<newVars, lockVars, peer, soVars, db, summaries, cache, ttl, sumCache, clock, call, repop,
                   inserted, nsum>>

\* the Redis clock advances one tick: a list key with an expiry has one tick less
\* to live, and expires with its last tick
Tick ==
    /\ \E s \in Sessions : ttl[s] > 0
    /\ ttl' = [s \in Sessions |-> IF ttl[s] > 0 THEN ttl[s] - 1 ELSE 0]
    /\ cache' = [s \in Sessions |-> IF ttl[s] = 1 THEN <<>> ELSE cache[s]]
    /\ UNCHANGED <<newVars, lockVars, peer, soVars, db, summaries, meta, metaTtl, sumCache, clock, call, repop,
                   inserted, faults, nsum>>

\* --------------------------------------------------- Summarize and GetStats
BeginSummarize(s, mt) ==
    /\ mode # "session_only" /\ Ready /\ nsum < MaxSummaries
    /\ call' = [Idle EXCEPT !.op = "Summarize", !.s = s, !.mt = mt,
                            !.pc = IF mode = "hybrid" THEN "sget" ELSE "sread"]
    /\ UNCHANGED <<newVars, lockVars, peer, soVars, db, summaries, redisVars, clock, repop, inserted,
                   faults, nsum>>

BeginGetStats(s) ==
    /\ mode # "session_only" /\ Ready
    /\ call' = [Idle EXCEPT !.op = "GetStats", !.s = s, !.pc = "stats"]
    /\ UNCHANGED <<newVars, lockVars, peer, soVars, db, summaries, redisVars, clock, repop, inserted,
                   faults, nsum>>

\* HybridMemory.Summarize: a non-empty cached summary is returned as it is
SumGet ==
    /\ call.op = "Summarize" /\ call.pc = "sget"
    /\ \E ok \in Outcome :
        /\ faults' = faults + Cost(ok)
        /\ call' = IF ok /\ sumCache[call.s] # 0
                   THEN [Return(call, "nil") EXCEPT !.sum = sumCache[call.s]]
                   ELSE [call EXCEPT !.pc = "sread", !.cerr = ~ok]
    /\ UNCHANGED <<newVars, lockVars, peer, soVars, db, summaries, redisVars, clock, repop, inserted, nsum>>

\* the message's line of the conversation text, "role: content\n" with a role of
\* four characters, costs len/4 tokens
MsgTokens(m) == (4 + 2 + TextLen(m.content) + 1) \div 4

\* the loop that builds the conversation text: the messages taken, in order, before
\* the one that would pass maxTokens (maxTokens <= 0: all of them)
RECURSIVE TakenWithin(_, _, _)
TakenWithin(ms, maxTokens, tokenCount) ==
    IF ms = <<>> THEN 0
    ELSE IF maxTokens > 0 /\ tokenCount + MsgTokens(Head(ms)) > maxTokens THEN 0
    ELSE 1 + TakenWithin(Tail(ms), maxTokens, tokenCount + MsgTokens(Head(ms)))

\* tokenCount after the loop: the tokens of the messages taken
RECURSIVE TokenCount(_)
TokenCount(ms) == IF ms = <<>> THEN 0 ELSE MsgTokens(Head(ms)) + TokenCount(Tail(ms))

\* SupabaseMemory.Summarize: read the session (up to 1000 messages); no message,
\* no summary and no error; else build the conversation text
SumRead ==
    /\ call.op = "Summarize" /\ call.pc = "sread"
    /\ \E ok \in Outcome :
        /\ faults' = faults + Cost(ok)
        /\ LET ms == PgRecent(db, call.s, SummarizeFetchLimit)
           IN  call' = IF ~ok THEN [Return(call, "durable") EXCEPT !.derr = TRUE]
                       ELSE IF Len(ms) = 0
                       THEN IF mode = "hybrid" THEN [call EXCEPT !.pc = "sset"]
                            ELSE Return(call, "nil")
                       ELSE [call EXCEPT !.pc = "llm", !.msgs = ms,
                                         !.given = TakenWithin(ms, call.mt, 0)]
    /\ UNCHANGED <<newVars, lockVars, peer, soVars, db, summaries, redisVars, clock, repop, inserted, nsum>>

\* a summarizer call that caches the text it was given when the completion fails
SumLLMCachingFailure ==
    /\ call.op = "Summarize" /\ call.pc = "llm"
    /\ \E out \in {"error", "nochoice", "ok"} :
        /\ out # "ok" => faults < MaxFaults
        /\ faults' = faults + Cost(out = "ok")
        /\ nsum' = IF out = "ok" THEN nsum + 1 ELSE nsum
        /\ sumCache' = IF out = "ok" THEN sumCache ELSE [sumCache EXCEPT ![call.s] = nsum + 1]
        /\ call' = IF out = "ok" THEN [call EXCEPT !.pc = "sinsert", !.sum = nsum + 1]
                   ELSE Return(call, "summarizer")
    /\ UNCHANGED <<newVars, lockVars, peer, soVars, db, summaries, cache, ttl, meta, metaTtl, clock, repop,
                   inserted>>

\* the chat completion: an error, no choice, or a summary text
SumLLM ==
    /\ call.op = "Summarize" /\ call.pc = "llm"
    /\ \E out \in {"error", "nochoice", "ok"} :
        /\ out # "ok" => faults < MaxFaults
        /\ faults' = faults + Cost(out = "ok")
        /\ nsum' = IF out = "ok" THEN nsum + 1 ELSE nsum
        /\ call' = IF out = "ok" THEN [call EXCEPT !.pc = "sinsert", !.sum = nsum + 1]
                   ELSE Return(call, "summarizer")
    /\ UNCHANGED <<newVars, lockVars, peer, soVars, db, summaries, redisVars, clock, repop, inserted>>

\* INSERT INTO agent_summaries with message_count = len(messages), token_count =
\* tokenCount and the first and last timestamps of messages; the summary text is
\* returned together with the INSERT's error
SumInsert ==
    /\ call.op = "Summarize" /\ call.pc = "sinsert"
    /\ \E ok \in Outcome :
        /\ summaries' = IF ok
                        THEN [summaries EXCEPT ![call.s] =
                                Append(@, [id |-> call.sum, count |-> Len(call.msgs),
                                           tokens |-> TokenCount(Take(call.msgs, call.given)),
                                           start |-> call.msgs[1].ts,
                                           end |-> call.msgs[Len(call.msgs)].ts])]
                        ELSE summaries
        /\ faults' = faults + Cost(ok)
        /\ call' = IF ~ok
                   THEN [Return(call, "durable") EXCEPT !.derr = TRUE,
                            !.sum = IF mode = "hybrid" THEN 0 ELSE @]
                   ELSE IF mode = "hybrid" THEN [call EXCEPT !.pc = "sset"]
                   ELSE Return(call, "nil")
    /\ UNCHANGED <<newVars, lockVars, peer, soVars, db, redisVars, clock, repop, inserted, nsum>>

\* HybridMemory.Summarize: SET of the summary key for one hour, unchecked
SumSet ==
    /\ call.op = "Summarize" /\ call.pc = "sset"
    /\ \E ok \in Outcome :
        /\ sumCache' = IF ok THEN [sumCache EXCEPT ![call.s] = call.sum] ELSE sumCache
        /\ faults' = faults + Cost(ok)
        /\ call' = [Return(call, "nil") EXCEPT !.cerr = @ \/ ~ok]
    /\ UNCHANGED <<newVars, lockVars, peer, soVars, db, summaries, cache, ttl, meta, metaTtl, clock, repop,
                   inserted, nsum>>

\* the summary key expires after its hour
SumExpire(s) ==
    /\ sumCache[s] # 0 /\ faults < MaxFaults
    /\ sumCache' = [sumCache EXCEPT ![s] = 0]
    /\ faults' = faults + 1
    /\ UNCHANGED <<newVars, lockVars, peer, soVars, db, summaries, cache, ttl, meta, metaTtl, clock, call, repop,
                   inserted, nsum>>

\* SupabaseMemory.GetStats: the aggregate query; with no row SUM(LENGTH(content)) is
\* NULL and does not scan into StorageSize
StatsDurable ==
    /\ call.op = "GetStats" /\ call.pc = "stats"
    /\ \E ok \in Outcome :
        /\ faults' = faults + Cost(ok)
        /\ call' = IF ~ok THEN [Return(call, "durable") EXCEPT !.derr = TRUE]
                   ELSE IF RowsOf(db, call.s) = {} THEN Return(call, "scan")
                   ELSE IF mode = "hybrid"
                   THEN [call EXCEPT !.pc = "hgetall", !.stat = PgStats(db, call.s)]
                   ELSE [Return(call, "nil") EXCEPT !.stat = PgStats(db, call.s)]
    /\ UNCHANGED <<newVars, lockVars, peer, soVars, db, summaries, redisVars, clock, repop, inserted, nsum>>

\* HybridMemory.GetStats: HGETALL of the meta hash (an error reads as an empty
\* hash); a larger message_count replaces SessionMessages
StatsMeta ==
    /\ call.op = "GetStats" /\ call.pc = "hgetall"
    /\ \E ok \in Outcome :
        /\ faults' = faults + Cost(ok)
        /\ call' = IF ok /\ meta[call.s] > call.stat.session
                   THEN [Return(call, "nil") EXCEPT !.stat.session = meta[call.s]]
                   ELSE [Return(call, "nil") EXCEPT !.cerr = ~ok]
    /\ UNCHANGED <<newVars, lockVars, peer, soVars, db, summaries, redisVars, clock, repop, inserted, nsum>>

\* ------------------------------------------------------------------ search
\* contains(text, query) of supabase.go
Contains(text, query) ==
    TextLen(text) > 0 /\ TextLen(query) > 0 /\ (text = query \/ TextLen(text) > TextLen(query))

\* calculateSimpleScore, in hundredths
SimpleScore(content, query) ==
    IF content = query THEN 100 ELSE IF Contains(content, query) THEN 80 ELSE 0

\* 1 - (embedding <=> $1): the cosine similarity, in hundredths, of the embedding
\* of the text c to the query vector q (the embedding of the text q)
Sim(q, c) == IF q = c THEN 100 ELSE IF q - c \in {1, -1} THEN 70 ELSE 40

ScoredMsg(m, sc) == [id |-> m.id, session |-> m.session, content |-> m.content,
                     ts |-> m.ts, score |-> sc]

\* the orders a sort by score descending may leave the hits H in (ties in any order)
ByScoreDesc(H) ==
    {f \in [1..Cardinality(H) -> H] :
        \A j, k \in 1..Cardinality(H) : j < k => (f[j] # f[k] /\ f[j].score >= f[k].score)}

\* the similarity query without its WHERE embedding IS NOT NULL, a row without an
\* embedding scoring as its text would
PgSearchAnyRow(d, q, limit, th) ==
    LET n == IF limit <= 0 THEN DefaultSearchLimit ELSE limit
        t == IF th <= 0 THEN DefaultSearchThreshold ELSE th
        H == {ScoredMsg(RowMsg(d, i), Sim(q, d[i].content)) :
                i \in {x \in Ids : d[x] # NoRow /\ Sim(q, d[x].content) > t}}
    IN  {Take(f, n) : f \in ByScoreDesc(H)}

\* SupabaseMemory.SearchWithEmbedding: the results the query may return
PgSearch(d, q, limit, th) ==
    LET n == IF limit <= 0 THEN DefaultSearchLimit ELSE limit
        t == IF th <= 0 THEN DefaultSearchThreshold ELSE th
        H == {ScoredMsg(RowMsg(d, i), Sim(q, d[i].content)) :
                i \in {x \in Ids : d[x] # NoRow /\ d[x].emb /\ Sim(q, d[x].content) > t}}
    IN  {Take(f, n) : f \in ByScoreDesc(H)}

\* SessionOnlyMemory.Search: text matches of every session, sorted, cut to limit
SOSearch(sess, q, limit, th) ==
    LET P == {p \in Sessions \X (1..MaxSessionMessages) :
                /\ p[2] <= Len(sess[p[1]])
                /\ Contains(sess[p[1]][p[2]].content, q)
                /\ SimpleScore(sess[p[1]][p[2]].content, q) >= th}
        H == {ScoredMsg(sess[p[1]][p[2]], SimpleScore(sess[p[1]][p[2]].content, q)) : p \in P}
    IN  {IF Len(f) > limit THEN SubSeq(f, 1, limit) ELSE f : f \in ByScoreDesc(H)}

\* SessionOnlyMemory.Search: results[:limit] panics for a negative limit
SO_Search(q, l, th) ==
    /\ mode = "session_only" /\ Ready
    /\ LET c == [Idle EXCEPT !.op = "Search", !.q = q, !.limit = l, !.th = th]
       IN  IF l < 0 THEN call' = [c EXCEPT !.err = "panic"]
           ELSE \E hits \in SOSearch(sessions, q, l, th) : call' = [c EXCEPT !.hits = hits]
    /\ UNCHANGED <<newVars, lockVars, peer, soVars, db, summaries, redisVars, clock, repop, inserted,
                   faults, nsum>>

\* a SearchWithEmbedding that answers with the text matches
SO_SearchWithEmbeddingAsText(q, l, th) ==
    /\ mode = "session_only" /\ Ready
    /\ LET c == [Idle EXCEPT !.op = "SearchWithEmbedding", !.q = q, !.limit = l, !.th = th]
       IN  IF l < 0 THEN call' = [c EXCEPT !.err = "panic"]
           ELSE \E hits \in SOSearch(sessions, q, l, th) : call' = [c EXCEPT !.hits = hits]
    /\ UNCHANGED <<newVars, lockVars, peer, soVars, db, summaries, redisVars, clock, repop, inserted,
                   faults, nsum>>

\* SessionOnlyMemory.SearchWithEmbedding: not supported
SO_SearchWithEmbedding(q, l, th) ==
    /\ mode = "session_only" /\ Ready
    /\ call' = [Idle EXCEPT !.op = "SearchWithEmbedding", !.q = q, !.limit = l, !.th = th,
                            !.err = "unsupported"]
    /\ UNCHANGED <<newVars, lockVars, peer, soVars, db, summaries, redisVars, clock, repop, inserted,
                   faults, nsum>>

\* SupabaseMemory.Search (HybridMemory.Search delegates to it): the query text is
\* embedded first
BeginSearch(q, l, th) ==
    /\ mode # "session_only" /\ Ready
    /\ call' = [Idle EXCEPT !.op = "Search", !.pc = "embed", !.q = q, !.limit = l, !.th = th]
    /\ UNCHANGED <<newVars, lockVars, peer, soVars, db, summaries, redisVars, clock, repop, inserted,
                   faults, nsum>>

BeginSearchWithEmbedding(q, l, th) ==
    /\ mode # "session_only" /\ Ready
    /\ call' = [Idle EXCEPT !.op = "SearchWithEmbedding", !.pc = "query", !.q = q,
                            !.limit = l, !.th = th]
    /\ UNCHANGED <<newVars, lockVars, peer, soVars, db, summaries, redisVars, clock, repop, inserted,
                   faults, nsum>>

\* generateEmbedding of the query; its error ends the call
SearchEmbed ==
    /\ call.op = "Search" /\ call.pc = "embed"
    /\ \E ok \in Outcome :
        /\ faults' = faults + Cost(ok)
        /\ call' = IF ok THEN [call EXCEPT !.pc = "query"]
                   ELSE [Return(call, "embedding") EXCEPT !.eerr = TRUE]
    /\ UNCHANGED <<newVars, lockVars, peer, soVars, db, summaries, redisVars, clock, repop, inserted, nsum>>

\* the similarity query of SearchWithEmbedding
SearchQuery ==
    /\ call.op \in {"Search", "SearchWithEmbedding"} /\ call.pc = "query"
    /\ \E ok \in Outcome :
        /\ faults' = faults + Cost(ok)
        /\ IF ok
           THEN \E hits \in PgSearch(db, call.q, call.limit, call.th) :
                    call' = [Return(call, "nil") EXCEPT !.hits = hits]
           ELSE call' = [Return(call, "durable") EXCEPT !.derr = TRUE]
    /\ UNCHANGED <<newVars, lockVars, peer, soVars, db, summaries, redisVars, clock, repop, inserted, nsum>>

\* ------------------------------------------------------- concurrent callers
\* the scheduler runs the other caller: its call goes on from where it stopped
Switch ==
    /\ mode # "session_only" /\ call # peer
    /\ call' = peer
    /\ peer' = call
    /\ UNCHANGED <<newVars, lockVars, soVars, db, summaries, redisVars, clock, repop, inserted, faults, nsum>>

\* ------------------------------------------------------------ specification
\* the stores of a process that has constructed nothing yet
Empty ==
    /\ sessions = [s \in Sessions |-> <<>>]
    /\ hasKey = {}
    /\ stats = [s \in Sessions |-> NoStats]
    /\ mutex = [readers |-> 0, w |-> "none"]
    /\ gor = [g \in Goroutines |-> NoCall]
    /\ db = [i \in Ids |-> NoRow]
    /\ summaries = [s \in Sessions |-> <<>>]
    /\ cache = [s \in Sessions |-> <<>>]
    /\ ttl = [s \in Sessions |-> 0]
    /\ meta = [s \in Sessions |-> 0]
    /\ metaTtl = [s \in Sessions |-> FALSE]
    /\ sumCache = [s \in Sessions |-> 0]
    /\ clock = 1
    /\ call = Idle
    /\ peer = Idle
    /\ repop = <<>>
    /\ nsum = 0
    /\ inserted = [s \in Sessions |-> <<>>]
    /\ faults = 0

\* NewWithConfig has returned an implementation: the mode selects it, its backends
\* are configured and answer; every store starts empty
Init ==
    /\ mode \in Modes
    /\ cfg = [Mode |-> mode,
              DatabaseURL |-> IF mode = "session_only" THEN "" ELSE "postgres://db",
              RedisAddr |-> IF mode = "hybrid" THEN "cache:6379" ELSE ""]
    /\ env = [pg |-> {PgTarget(cfg.DatabaseURL)}, redis |-> {RedisTarget(cfg.RedisAddr)}]
    /\ newErr = "nil"
    /\ Empty

\* a process about to construct its memory from any configuration, with any of the
\* servers answering
InitConstruction ==
    /\ mode = "none"
    /\ cfg \in [Mode : ConfigModes, DatabaseURL : DatabaseURLs, RedisAddr : RedisAddrs]
    /\ env \in [pg : SUBSET {PgTarget(u) : u \in DatabaseURLs \ {"::"}},
                 redis : SUBSET {RedisTarget(a) : a \in RedisAddrs}]
    /\ newErr = "nil"
    /\ Empty

\* the caller adds, reads and clears; Redis expires list keys; repopulations run
Next ==
    \/ \E s \in Callers, i \in Ids : SO_AddMessage(s, i)
    \/ \E s \in Callers, l \in Limits : SO_GetRecentMessages(s, l)
    \/ \E s \in Callers : SO_ClearSession(s)
    \/ \E s \in Callers, i \in Ids : BeginAddMessage(s, i)
    \/ \E s \in Callers, l \in Limits : BeginGetRecentMessages(s, l)
    \/ \E s \in Callers : BeginClearSession(s)
    \/ AddDurable
    \/ AddLPush
    \/ AddLTrim
    \/ AddExpire
    \/ AddMeta
    \/ GetLRange
    \/ GetDurable
    \/ ClearDel
    \/ ClearDurable
    \/ \E k \in 1..MaxRepop : RepopDel(k)
    \/ \E k \in 1..MaxRepop : RepopLPush(k)
    \/ \E k \in 1..MaxRepop : RepopExpire(k)
    \/ \E s \in Callers : TTLExpire(s)

Spec == Init /\ [][Next]_vars

\* the caller adds, clears, summarizes and asks for statistics; Redis expires the
\* meta hash and the summary key
NextCompaction ==
    \/ \E s \in Callers, i \in Ids : SO_AddMessage(s, i)
    \/ \E s \in Callers : SO_ClearSession(s)
    \/ \E s \in Callers : SO_GetStats(s)
    \/ \E s \in Callers, i \in Ids : BeginAddMessage(s, i)
    \/ \E s \in Callers : BeginClearSession(s)
    \/ \E s \in Callers, mt \in TokenBudgets : BeginSummarize(s, mt)
    \/ \E s \in Callers : BeginGetStats(s)
    \/ AddDurable
    \/ AddLPush
    \/ AddLTrim
    \/ AddExpire
    \/ AddMeta
    \/ ClearDel
    \/ ClearDurable
    \/ SumGet
    \/ SumRead
    \/ SumLLM
    \/ SumInsert
    \/ SumSet
    \/ StatsDurable
    \/ StatsMeta
    \/ \E s \in Callers : MetaExpire(s)
    \/ \E s \in Callers : SumExpire(s)

SpecCompaction == Init /\ [][NextCompaction]_vars

\* two callers add to and summarize the same session; their calls interleave
\* command by command (SessionOnlyMemory's calls are serialized by its mutex)
NextWriters ==
    \/ \E s \in Callers, i \in Ids : SO_AddMessage(s, i)
    \/ \E s \in Callers : SO_Summarize(s)
    \/ \E s \in Callers, i \in Ids : BeginAddMessage(s, i)
    \/ \E s \in Callers, mt \in NoBudget : BeginSummarize(s, mt)
    \/ AddDurable
    \/ AddLPush
    \/ AddLTrim
    \/ AddExpire
    \/ AddMeta
    \/ SumGet
    \/ SumRead
    \/ SumLLM
    \/ SumInsert
    \/ SumSet
    \/ Switch

SpecWriters == Init /\ [][NextWriters]_vars

\* the caller adds messages and searches them
NextSearch ==
    \/ \E s \in Callers, i \in Ids : SO_AddMessage(s, i)
    \/ \E q \in Queries, l \in Limits, th \in Thresholds : SO_Search(q, l, th)
    \/ \E q \in Queries, l \in Limits, th \in Thresholds : SO_SearchWithEmbedding(q, l, th)
    \/ \E s \in Callers, i \in Ids : BeginAddMessage(s, i)
    \/ \E q \in Queries, l \in Limits, th \in Thresholds : BeginSearch(q, l, th)
    \/ \E q \in Queries, l \in Limits, th \in Thresholds : BeginSearchWithEmbedding(q, l, th)
    \/ AddDurable
    \/ AddLPush
    \/ AddLTrim
    \/ AddExpire
    \/ AddMeta
    \/ SearchEmbed
    \/ SearchQuery

SpecSearch == Init /\ [][NextSearch]_vars

\* the caller works on two sessions: it adds to both, reads the one and clears
\* the other
NextIsolation ==
    \/ \E s \in Sessions, i \in Ids : SO_AddMessage(s, i)
    \/ \E s \in Callers, l \in Limits : SO_GetRecentMessages(s, l)
    \/ \E s \in Others : SO_ClearSession(s)
    \/ \E s \in Sessions, i \in Ids : BeginAddMessage(s, i)
    \/ \E s \in Callers, l \in Limits : BeginGetRecentMessages(s, l)
    \/ \E s \in Others : BeginClearSession(s)
    \/ AddDurable
    \/ AddLPush
    \/ AddLTrim
    \/ AddExpire
    \/ AddMeta
    \/ GetLRange
    \/ GetDurable
    \/ ClearDel
    \/ ClearDurable
    \/ \E k \in 1..MaxRepop : RepopDel(k)
    \/ \E k \in 1..MaxRepop : RepopLPush(k)
    \/ \E k \in 1..MaxRepop : RepopExpire(k)

SpecIsolation == Init /\ [][NextIsolation]_vars

\* the caller adds and clears, and reads in every way the interface offers
NextAbsence ==
    \/ \E s \in Callers, i \in Ids : SO_AddMessage(s, i)
    \/ \E s \in Callers, l \in Limits : SO_GetRecentMessages(s, l)
    \/ \E s \in Callers : SO_ClearSession(s)
    \/ \E s \in Callers : SO_Summarize(s)
    \/ \E s \in Callers : SO_GetSummary(s)
    \/ \E s \in Callers : SO_GetStats(s)
    \/ \E s \in Callers, i \in Ids : BeginAddMessage(s, i)
    \/ \E s \in Callers, l \in Limits : BeginGetRecentMessages(s, l)
    \/ \E s \in Callers : BeginClearSession(s)
    \/ \E s \in Callers, mt \in NoBudget : BeginSummarize(s, mt)
    \/ \E s \in Callers : BeginGetStats(s)
    \/ AddDurable
    \/ AddLPush
    \/ AddLTrim
    \/ AddExpire
    \/ AddMeta
    \/ GetLRange
    \/ GetDurable
    \/ ClearDel
    \/ ClearDurable
    \/ SumGet
    \/ SumRead
    \/ SumLLM
    \/ SumInsert
    \/ SumSet
    \/ StatsDurable
    \/ StatsMeta
    \/ \E k \in 1..MaxRepop : RepopDel(k)
    \/ \E k \in 1..MaxRepop : RepopLPush(k)
    \/ \E k \in 1..MaxRepop : RepopExpire(k)

SpecAbsence == Init /\ [][NextAbsence]_vars

\* the caller adds and reads while the Redis clock runs
NextTTL ==
    \/ \E s \in Callers, i \in Ids : BeginAddMessage(s, i)
    \/ \E s \in Callers, l \in Limits : BeginGetRecentMessages(s, l)
    \/ AddDurable
    \/ AddLPush
    \/ AddLTrim
    \/ AddExpire
    \/ AddMeta
    \/ GetLRange
    \/ GetDurable
    \/ \E k \in 1..MaxRepop : RepopDel(k)
    \/ \E k \in 1..MaxRepop : RepopLPush(k)
    \/ \E k \in 1..MaxRepop : RepopExpire(k)
    \/ Tick

SpecTTL == Init /\ [][NextTTL]_vars

\* the caller adds messages and summarizes within a token budget
NextSummary ==
    \/ \E s \in Callers, i \in Ids : SO_AddMessage(s, i)
    \/ \E s \in Callers : SO_Summarize(s)
    \/ \E s \in Callers, i \in Ids : BeginAddMessage(s, i)
    \/ \E s \in Callers, mt \in TokenBudgets : BeginSummarize(s, mt)
    \/ AddDurable
    \/ AddLPush
    \/ AddLTrim
    \/ AddExpire
    \/ AddMeta
    \/ SumGet
    \/ SumRead
    \/ SumLLM
    \/ SumInsert
    \/ SumSet

SpecSummary == Init /\ [][NextSummary]_vars

\* the caller adds to two sessions, stores in its own, clears the other one,
\* searches with the default limit and threshold, summarizes and asks for
\* statistics; Redis expires list keys
NextDurable ==
    \/ \E s \in Sessions, i \in Ids : BeginAddMessage(s, i)
    \/ \E s \in Callers, i \in Ids : BeginStore(s, i)
    \/ \E s \in Others : BeginClearSession(s)
    \/ \E q \in Queries : BeginSearch(q, DefaultSearchLimit, DefaultSearchThreshold)
    \/ \E s \in Callers, mt \in NoBudget : BeginSummarize(s, mt)
    \/ \E s \in Callers : BeginGetStats(s)
    \/ AddDurable
    \/ AddLPush
    \/ AddLTrim
    \/ AddExpire
    \/ AddMeta
    \/ StoreDurable
    \/ ClearDel
    \/ ClearDurable
    \/ SearchEmbed
    \/ SearchQuery
    \/ SumGet
    \/ SumRead
    \/ SumLLM
    \/ SumInsert
    \/ SumSet
    \/ StatsDurable
    \/ StatsMeta
    \/ \E s \in Callers : TTLExpire(s)

SpecDurable == Init /\ [][NextDurable]_vars

\* a process constructs its memory, by New or by NewWithConfig
NextConstruction ==
    \/ New
    \/ NewWithConfig

SpecConstruction == InitConstruction /\ [][NextConstruction]_vars

\* the caller adds and reads, and may read while repopulations are in flight; the
\* goroutines in flight run in the order in which they were started
NextRepopulation ==
    \/ \E s \in Callers, i \in Ids : BeginAddMessage(s, i)
    \/ \E s \in Callers, l \in Limits : BeginGetRecentMessages(s, l)
    \/ \E s \in Callers, l \in Limits : BeginGetRecentMessagesDuringRepopulation(s, l)
    \/ AddDurable
    \/ AddLPush
    \/ AddLTrim
    \/ AddExpire
    \/ AddMeta
    \/ GetLRange
    \/ GetDurable
    \/ \E k \in 1..MaxRepop : RepopDel(k)
    \/ \E k \in 1..MaxRepop : RepopLPush(k)
    \/ \E k \in 1..MaxRepop : RepopExpire(k)

SpecRepopulation == Init /\ [][NextRepopulation]_vars

\* one SessionOnlyMemory shared by the goroutines, every call taking the mutex
InitLocks == Init /\ mode = "session_only"

NextLocks ==
    \/ \E g \in Goroutines, op \in WriteOps \cup ReadOps, s \in Callers, i \in Ids :
          GoCall(g, op, s, i)
    \/ \E g \in Goroutines : GoLock(g)
    \/ \E g \in Goroutines : GoLocked(g)
    \/ \E g \in Goroutines : GoAddMessage(g)
    \/ \E g \in Goroutines : GoClearSession(g)
    \/ \E g \in Goroutines : GoRLock(g)
    \/ \E g \in Goroutines : GoRead(g)
    \/ \E g \in Goroutines : GoGetStats(g)
    \/ \E g \in Goroutines : GoGetSummary(g)
    \/ \E g \in Goroutines : GoInnerRLock(g)
    \/ \E g \in Goroutines : GoInnerSummarize(g)
    \/ \E g \in Goroutines : GoGetSummaryReturn(g)

SpecLocks == InitLocks /\ [][NextLocks]_vars

\* the Go scheduler runs every goroutine that can run, and sync.Mutex hands the
\* lock to a goroutine that has waited for it (starvation mode): a step of a call
\* that is enabled again and again is taken
SpecLocksFair == SpecLocks /\ \A g \in Goroutines : SF_vars(GoStep(g))

\* the session IDs a caller may put in a message: a session, or none
SessionIDs == Callers \cup {""}

\* one caller of a SessionOnlyMemory, whose messages may lack the session ID
NextSessionOnly ==
    \/ \E s \in SessionIDs, i \in Ids : SO_AddMessage(s, i)
    \/ \E s \in SessionIDs, i \in Ids : SO_Store(s, i)
    \/ \E s \in Callers, l \in Limits : SO_GetRecentMessages(s, l)
    \/ \E s \in Callers : SO_ClearSession(s)
    \/ \E s \in Callers : SO_GetStats(s)

SpecSessionOnly == InitLocks /\ [][NextSessionOnly]_vars

\* ------------------------------------------------------------------ claims
Done(op) == call.op = op /\ call.pc = "done"

Hybrid == mode = "hybrid"

\* the session's cache tier, oldest message first
CacheTier(s) == IF mode = "session_only" THEN sessions[s] ELSE Reverse(cache[s])

\* the messages a session holds in its authoritative store
TotalMessages(s) ==
    IF mode = "session_only" THEN Len(sessions[s]) ELSE Cardinality(RowsOf(db, s))

Chronological(ms) == \A j, k \in 1..Len(ms) : j < k => ms[j].ts < ms[k].ts

DistinctIds(ms) == \A j, k \in 1..Len(ms) : j # k => ms[j].id # ms[k].id

\* ms is the durable tier's answer for (s, n): the n newest rows of s, or all of
\* them when there are fewer, each as stored, oldest first
IsDurableRecent(ms, s, n) ==
    /\ Len(ms) = Min(n, Cardinality(RowsOf(db, s)))
    /\ Chronological(ms)
    /\ \A j \in 1..Len(ms) : ms[j].id \in RowsOf(db, s) /\ ms[j] = RowMsg(db, ms[j].id)
    /\ \A i \in RowsOf(db, s) :
          (\A j \in 1..Len(ms) : ms[j].id # i) => \A j \in 1..Len(ms) : db[i].ts < ms[j].ts

\* C1: in hybrid mode an AddMessage whose durable write failed returns a non-nil
\* error (stated as the claim states it; the code logs the failure and returns nil)
C1_DurableFailureIsReturned ==
    (Hybrid /\ Done("AddMessage") /\ call.derr) => call.err # "nil"

\* C2: in hybrid mode GetRecentMessages returns its messages in chronological
\* order, oldest first, whichever path served them (the ordering half of the claim)
C2_RecentIsChronological ==
    (Hybrid /\ Done("GetRecentMessages") /\ call.err = "nil") => Chronological(call.msgs)

\* C3: GetRecentMessages(session, limit) returns min(limit, total) messages, total
\* being the size of the session in its authoritative store (stated for limit >= 1,
\* for results without a repeated id, for behaviours in which no tier command
\* failed and no key expired, and in hybrid mode for a cache list that lost nothing)
C3_RecentCount ==
    (Done("GetRecentMessages") /\ call.err = "nil" /\ call.limit >= 1 /\ faults = 0
        /\ DistinctIds(call.msgs)
        /\ (Hybrid => Len(cache[call.s]) = Min(MaxSessionMessages, TotalMessages(call.s))))
        => Len(call.msgs) = Min(call.limit, TotalMessages(call.s))

\* C4: in hybrid mode GetRecentMessages fails only when the durable read failed, and
\* when the cache read failed or was empty and the durable read succeeded it returns
\* the durable tier's chronological answer
C4_CacheFailureFallsBack ==
    (Hybrid /\ Done("GetRecentMessages")) =>
        /\ call.err # "nil" => call.derr
        /\ (call.miss /\ call.err = "nil")
              => IsDurableRecent(call.msgs, call.s, HybridLimit(call.limit))

C4_Witness ==
    /\ Hybrid /\ Done("GetRecentMessages")
    /\ call.cerr /\ call.miss /\ call.err = "nil"
    /\ cache[call.s] # <<>>
    /\ Len(call.msgs) >= 2

\* C5: in hybrid mode a failed cache write after a successful durable write leaves
\* AddMessage returning nil, the message durably stored (stated as the claim states
\* it; the code returns the LPUSH error)
C5_CacheWriteFailureIsTolerated ==
    (Hybrid /\ Done("AddMessage") /\ ~call.derr /\ call.cerr)
        => (call.err = "nil" /\ db[call.id] # NoRow)

\* C6: after more than MaxSessionMessages AddMessage calls that returned nil, no
\* clear in between, the cache tier holds exactly the last MaxSessionMessages of
\* them in insertion order (stated for behaviours in which no tier command failed
\* and no key expired)
C6_CacheKeepsLastMax ==
    \A s \in Callers :
        (mode # "persistent" /\ Done("AddMessage") /\ call.s = s /\ call.err = "nil"
            /\ faults = 0 /\ Len(inserted[s]) > MaxSessionMessages)
        => CacheTier(s) = LastN(inserted[s], MaxSessionMessages)

\* C7: an id added twice is stored once and returned once by GetRecentMessages
C7_UpsertStoresOnce ==
    /\ \A s \in Callers : DistinctIds(sessions[s])
    /\ (Done("GetRecentMessages") /\ call.err = "nil") => DistinctIds(call.msgs)

\* C8: the GetRecentMessages that follows a ClearSession which returned nil
\* returns an empty list
C8_ClearedSessionReadsEmpty ==
    (Done("GetRecentMessages") /\ call.afterClear /\ call.err = "nil") => call.msgs = <<>>

\* C9: in the step in which HybridMemory.ClearSession returns the durable
\* deletion's error, the session's cache entries are gone and its durable records
\* are untouched
C9_FailedClearLeavesCacheEmpty ==
    [][(Hybrid /\ call.op = "ClearSession" /\ call.pc = "durable"
            /\ call'.pc = "done" /\ call'.err # "nil")
        => (cache'[call.s] = <<>> /\ db' = db)]_vars

\* C10: once SummarizeThreshold messages of a session are durably written and
\* nothing is in flight, GetStats reports HasSummary and a summary covering
\* SummarizeThreshold messages is persisted
C10_ThresholdTriggersCompaction ==
    (mode # "session_only" /\ Done("GetStats") /\ call.err = "nil" /\ repop = <<>>
        /\ Cardinality(RowsOf(db, call.s)) >= SummarizeThreshold)
    => /\ call.stat.hasSummary
       /\ summaries[call.s] # <<>>
       /\ summaries[call.s][1].count = SummarizeThreshold

\* C11: compaction is single-flight per session: of two Summarize calls for the
\* same session that are in flight together, at most one has called the summarizer
C11_SummarizeIsSingleFlight ==
    ~(/\ call.op = "Summarize" /\ peer.op = "Summarize" /\ call.s = peer.s
      /\ call.pc = "sinsert" /\ peer.pc = "sinsert")

\* C12: a Summarize call that fails at the summarizer leaves the session as it was:
\* no step of a Summarize call up to and including a failed summarizer call changes
\* the stored messages of either tier, the persisted summaries or the cached summary
C12_FailedSummarizeChangesNothing ==
    [][(/\ call'.op = "Summarize" /\ call' # call
        /\ call.pc \notin {"sinsert", "sset"} /\ call'.pc \notin {"sinsert", "sset"})
        => UNCHANGED <<db, cache, sessions, summaries, sumCache>>]_vars

C12_Witness ==
    /\ Hybrid /\ Done("Summarize") /\ call.err = "summarizer"
    /\ RowsOf(db, call.s) # {} /\ cache[call.s] # <<>>
    /\ summaries[call.s] = <<>> /\ sumCache[call.s] = 0

Searched == call.op \in {"Search", "SearchWithEmbedding"} /\ call.pc = "done"

\* the results a search of the stores as they are may return
SearchResults(q, l, th) ==
    IF mode = "session_only" THEN SOSearch(sessions, q, l, th) ELSE PgSearch(db, q, l, th)

HasHit(hits, h) == \E k \in 1..Len(hits) : hits[k] = h

\* C13: search is monotone in the threshold: whatever a search with threshold T2
\* returned, a search of the same stores with the same query and limit and any
\* threshold T1 < T2 can return a result that contains all of it
C13_SearchIsMonotone ==
    (Searched /\ call.err = "nil" /\ call.limit >= 0)
        => \A t1 \in Thresholds :
              t1 < call.th =>
                \E r1 \in SearchResults(call.q, call.limit, t1) :
                    \A j \in 1..Len(call.hits) : HasHit(r1, call.hits[j])

\* the stored messages that carry an embedding and score at least th against q
Eligible(q, th) ==
    {i \in Ids : db[i] # NoRow /\ db[i].emb /\ Sim(q, db[i].content) >= th}

\* C14: SearchWithEmbedding(vector, limit, threshold) returns exactly the stored
\* messages with an embedding whose score is >= threshold, best first, cut to limit
\* (stated for limit >= 1 and threshold > 0)
C14_SearchReturnsAllAtOrAboveThreshold ==
    (mode # "session_only" /\ Done("SearchWithEmbedding") /\ call.err = "nil"
        /\ call.limit >= 1 /\ call.th > 0)
        => /\ Len(call.hits) = Min(call.limit, Cardinality(Eligible(call.q, call.th)))
           /\ \A j \in 1..Len(call.hits) :
                 /\ call.hits[j].id \in Eligible(call.q, call.th)
                 /\ call.hits[j].score = Sim(call.q, db[call.hits[j].id].content)
           /\ \A j, k \in 1..Len(call.hits) :
                 j < k => (call.hits[j].id # call.hits[k].id
                           /\ call.hits[j].score >= call.hits[k].score)
           /\ \A i \in Eligible(call.q, call.th) :
                 (\A j \in 1..Len(call.hits) : call.hits[j].id # i)
                    => \A j \in 1..Len(call.hits) :
                          Sim(call.q, db[i].content) <= call.hits[j].score

\* C15: an AddMessage whose embedding generation failed still stores the message,
\* without an embedding, and fails only if a tier command failed; a stored message
\* without an embedding is in no search result
C15_EmbeddingFailureStillStores ==
    /\ (Done("AddMessage") /\ call.eerr /\ ~call.derr)
          => /\ db[call.id] # NoRow /\ ~db[call.id].emb
             /\ db[call.id].content = call.content
             /\ call.err # "nil" => call.cerr
    /\ (mode # "session_only" /\ Searched /\ call.err = "nil")
          => \A j \in 1..Len(call.hits) : db[call.hits[j].id].emb

C15_Witness ==
    /\ Done("SearchWithEmbedding") /\ call.err = "nil" /\ call.hits # <<>>
    /\ \E i \in Ids : db[i] # NoRow /\ ~db[i].emb /\ Sim(call.q, db[i].content) = 100
                        /\ call.th = 40 /\ call.limit = 3

RecentView(s, l) ==
    IF mode = "session_only" THEN (IF s \in hasKey THEN SORecent(sessions[s], l) ELSE <<>>)
    ELSE IF mode = "persistent" THEN PgRecent(db, s, l)
    ELSE IF LRange(cache[s], HybridLimit(l) - 1) # <<>>
         THEN Reverse(LRange(cache[s], HybridLimit(l) - 1))
         ELSE PgRecent(db, s, HybridLimit(l))

\* C16: session isolation: no step of an AddMessage or ClearSession call on another
\* session changes what GetRecentMessages returns for session A, whatever message
\* id the call uses
C16_SessionsAreIsolated ==
    [][(call'.s \in Others /\ call'.op \in {"AddMessage", "ClearSession"} /\ call' # call)
        => \A l \in {x \in Limits : x >= 0} : RecentView("A", l)' = RecentView("A", l)]_vars

\* the session holds no message and no summary in any tier
Absent(s) ==
    IF mode = "session_only" THEN s \notin hasKey \/ sessions[s] = <<>>
    ELSE /\ RowsOf(db, s) = {} /\ summaries[s] = <<>>
         /\ cache[s] = <<>> /\ sumCache[s] = 0

\* C17: absence is not an error: GetRecentMessages, Summarize, GetSummary and
\* GetStats on a session without messages and summary return an empty result and a
\* nil error (stated for behaviours in which no tier command failed)
C17_AbsenceIsNotAnError ==
    (/\ call.pc = "done" /\ faults = 0 /\ repop = <<>>
     /\ call.op \in {"GetRecentMessages", "Summarize", "GetSummary", "GetStats"}
     /\ Absent(call.s))
        => (call.err = "nil" /\ call.msgs = <<>> /\ call.sum = 0)

\* the contents the authoritative store of the mode holds under id i in session s,
\* one element per record
StoredUnder(s, i) ==
    IF mode = "session_only"
    THEN [k \in {x \in 1..Len(sessions[s]) : sessions[s][x].id = i} |-> sessions[s][k].content]
    ELSE [k \in {x \in {1} : db[i] # NoRow /\ db[i].session = s} |-> db[i].content]

\* C19: two AddMessage calls for one session that run at the same time both take
\* effect: with different ids each message is stored once with its content, with the
\* same id one record remains and holds the content of the write that arrived last
\* (inserted lists the writes in arrival order, in hybrid mode in order of return,
\* where either content is accepted)
C19_ConcurrentAddsBothTakeEffect ==
    \A s \in Callers :
        (call.pc = "done" /\ peer.pc = "done" /\ faults = 0 /\ Len(inserted[s]) = 2)
            => LET a == inserted[s][1]
                   b == inserted[s][2]
               IN  IF a.id # b.id
                   THEN /\ StoredUnder(s, a.id) = [k \in {1} |-> a.content]
                        /\ StoredUnder(s, b.id) = [k \in {1} |-> b.content]
                   ELSE /\ Cardinality(DOMAIN StoredUnder(s, b.id)) = 1
                        /\ \A k \in DOMAIN StoredUnder(s, b.id) :
                              StoredUnder(s, b.id)[k] \in
                                 (IF Hybrid THEN {a.content, b.content} ELSE {b.content})

\* C20: a completed repopulation obeys the caps of a normal write: in the step in
\* which a repopulation ends with its EXPIRE carried out, and with no call of the
\* caller in progress, the session's cache list holds at most maxSessionMessages
\* entries and, when not empty, carries the TTL
C20_RepopulationObeysCaps ==
    [][\A k \in 1..MaxRepop :
          (/\ k <= Len(repop) /\ repop[k].pc = "expire" /\ call.pc = "done"
           /\ repop' = RepopEnd(k) /\ faults' = faults)
            => /\ Len(cache'[repop[k].s]) <= MaxSessionMessages
               /\ cache'[repop[k].s] # <<>> => ttl'[repop[k].s] > 0]_vars

\* C21: the cache TTL of a session is sliding: the EXPIRE of an AddMessage gives the
\* session's list key the full sessionTTL again whatever was left of it, and a
\* GetRecentMessages that finds the key expired goes to the durable tier and
\* returns the durable tier's answer (stated for commands that do not fail)
C21_TTLIsSliding ==
    [][/\ (Hybrid /\ call.op = "AddMessage" /\ call.pc = "expire" /\ call'.pc = "meta"
            /\ faults' = faults /\ cache[call.s] # <<>>)
          => ttl'[call.s] = SessionTTL
       /\ (Hybrid /\ call.op = "GetRecentMessages" /\ call.pc = "lrange" /\ call' # call
            /\ ttl[call.s] = 0 /\ cache[call.s] = <<>>)
          => (call'.pc = "durable" /\ call'.miss)
       /\ (Hybrid /\ call.op = "GetRecentMessages" /\ call.pc = "durable" /\ call.miss
            /\ ~call.cerr /\ call'.pc = "done" /\ call'.err = "nil")
          => IsDurableRecent(call'.msgs, call.s, HybridLimit(call.limit))]_vars

\* a read served by the durable tier after the key of a session written twice,
\* the second write sliding the expiry, has expired
C21_Witness ==
    /\ Hybrid /\ Done("GetRecentMessages") /\ call.miss /\ ~call.cerr /\ call.err = "nil"
    /\ faults = 0 /\ Len(inserted[call.s]) = 2 /\ Len(call.msgs) = 2
    /\ cache[call.s] = <<>> /\ ttl[call.s] = 0
    /\ Len(repop) = 1 /\ repop[1].pc = "del"

Larger(a, b) == IF a > b THEN a ELSE b

\* C22: HybridMemory.GetStats reports for a session, as SessionMessages, the larger
\* of the cache tier's message count (message_count of the session's meta hash) and
\* the durable tier's message count (the session's rows): stated for the step in
\* which the call returns nil, its HGETALL answered
C22_StatsTakeLargerCount ==
    [][(Hybrid /\ call.op = "GetStats" /\ call.pc = "hgetall" /\ call'.pc = "done"
            /\ call'.err = "nil" /\ faults' = faults)
        => call'.stat.session = Larger(meta[call.s], Cardinality(RowsOf(db, call.s)))]_vars

\* the session's message timeline: its durable rows, oldest first
Timeline(s) == Reverse(OrderByCreatedDesc(db, RowsOf(db, s)))

\* C23: the summary Summarize persists records as message count and start/end time
\* exactly the messages whose text was given to the summarizer, and those are a
\* contiguous prefix of the session's timeline: stated for the step that inserts
\* the summary
C23_SummaryCoversWhatWasSummarized ==
    [][(call.op = "Summarize" /\ call.pc = "sinsert" /\ summaries' # summaries)
        => LET rec == summaries'[call.s][Len(summaries'[call.s])]
               g == call.given
           IN  /\ g >= 1
               /\ rec.count = g
               /\ rec.start = call.msgs[1].ts
               /\ rec.end = call.msgs[g].ts
               /\ SubSeq(call.msgs, 1, g) = SubSeq(Timeline(call.s), 1, g)]_vars

\* C24: persisted summaries are append-only: no step of an AddMessage, Summarize,
\* ClearSession or GetStats call changes or removes a summary record of any
\* session; a step that changes a session's summaries is a step of a Summarize
\* call and appends one record, newer than every record there was
C24_SummariesAreAppendOnly ==
    [][\A s \in Sessions :
          /\ Len(summaries'[s]) >= Len(summaries[s])
          /\ SubSeq(summaries'[s], 1, Len(summaries[s])) = summaries[s]
          /\ summaries'[s] # summaries[s]
                => /\ call.op = "Summarize" /\ call.s = s
                   /\ Len(summaries'[s]) = Len(summaries[s]) + 1
                   /\ \A k \in 1..Len(summaries[s]) :
                         summaries[s][k].id < summaries'[s][Len(summaries'[s])].id]_vars

\* two summaries of a session, the second of fewer messages than the first: the
\* session was cleared in between and the first summary is still there
C24_Witness ==
    /\ mode # "session_only" /\ Done("Summarize") /\ call.err = "nil"
    /\ Len(summaries[call.s]) = 2
    /\ summaries[call.s][1].count = 2 /\ summaries[call.s][2].count = 1

\* the ids the durable GetRecentMessages returns for s with a limit that covers
\* every row
DurableIds(d, s) == {PgRecent(d, s, Cardinality(Ids))[k].id :
                        k \in 1..Len(PgRecent(d, s, Cardinality(Ids)))}

\* C25: in the durable tier a message written for a session stays until the
\* session is cleared: the durable write of an AddMessage or Store that succeeds
\* leaves the id returned by the durable GetRecentMessages of its session, and no
\* step but the DELETE of a ClearSession of that session takes an id out of what
\* the durable GetRecentMessages of a session returns
C25_DurableMessagesStay ==
    [][/\ (call.op \in {"AddMessage", "Store"} /\ call.pc = "durable" /\ call' # call
            /\ ~call'.derr)
          => call.id \in DurableIds(db', call.s)
       /\ \A s \in Sessions :
            ~(call.op = "ClearSession" /\ call.s = s /\ call.pc = "durable")
               => DurableIds(db, s) \subseteq DurableIds(db', s)]_vars

\* the configuration lacks a backend its mode requires
LacksBackend(c) ==
    \/ c.Mode = "hybrid" /\ c.RedisAddr = ""
    \/ c.Mode \in {"persistent", "hybrid"} /\ c.DatabaseURL = ""

\* C26: construction with a mode whose required backend is not configured (hybrid
\* without RedisAddr, persistent or hybrid without DatabaseURL) returns an error
\* and no memory instance
C26_MissingBackendFailsConstruction ==
    [][(LacksBackend(cfg) /\ <<mode, newErr>>' # <<mode, newErr>>)
        => (mode' = "none" /\ newErr' # "nil")]_vars

\* C27: among search results of equal score the one with the more recent timestamp
\* comes first, so that the stores as they are allow one result only
C27_TiesAreBrokenByRecency ==
    (Searched /\ call.err = "nil" /\ call.limit >= 0)
        => /\ \A j, k \in 1..Len(call.hits) :
                 (j < k /\ call.hits[j].score = call.hits[k].score)
                    => call.hits[j].ts > call.hits[k].ts
           /\ Cardinality(SearchResults(call.q, call.limit, call.th)) = 1

C29_CacheIsSubsetOfDurable ==
    (Hybrid /\ ~(call.op = "AddMessage" /\ call.pc # "done"))
        => \A s \in Sessions : \A k \in 1..Len(cache[s]) : cache[s][k].id \in RowsOf(db, s)

\* C30: read-your-writes under background repopulation: a hybrid GetRecentMessages
\* with limit >= 1 that ran with no repopulation in flight returns, as its newest
\* element, the message of the last AddMessage to the session that returned nil
\* (stated for behaviours in which no tier command failed, no key expired and no
\* message id was used twice)
C30_ReadYourWritesAfterRepopulation ==
    (/\ Hybrid /\ Done("GetRecentMessages") /\ call.err = "nil" /\ call.limit >= 1
     /\ faults = 0 /\ inserted[call.s] # <<>> /\ DistinctIds(inserted[call.s])
     /\ IF call.miss THEN Len(repop) = 1 /\ repop[1].pc = "del" ELSE repop = <<>>)
        => /\ call.msgs # <<>>
           /\ call.msgs[Len(call.msgs)] = inserted[call.s][Len(inserted[call.s])]

\* C31: a cleared session is not resurrected by background work: when the
\* repopulation of a session ends after a ClearSession of that session returned
\* nil, the session's cache list is empty, and a GetRecentMessages that follows
\* such a ClearSession with no repopulation left in flight returns an empty list
\* (stated for behaviours in which no tier command failed and no key expired)
C31_ClearedSessionIsNotResurrected ==
    [][/\ (/\ Hybrid /\ faults' = 0 /\ repop # <<>> /\ repop' = <<>>
           /\ Ready /\ JustCleared(repop[1].s))
          => cache'[repop[1].s] = <<>>
       /\ (/\ Hybrid /\ faults' = 0 /\ repop = <<>>
           /\ call.op = "GetRecentMessages" /\ call.afterClear
           /\ call.pc # "done" /\ call'.pc = "done" /\ call'.err = "nil")
          => call'.msgs = <<>>]_vars

\* C32: repopulation is atomic for readers: a hybrid GetRecentMessages with
\* limit >= 1 whose LRANGE runs while a repopulation of its session is still
\* pushing messages, and which returns from the cache, returns at least
\* min(limit, number of durable messages of the session) messages (stated for
\* behaviours in which no tier command failed, and for sessions whose durable
\* messages all fit on the cache list)
C32_RepopulationIsAtomicForReaders ==
    [][(/\ Hybrid /\ faults' = 0
        /\ call.op = "GetRecentMessages" /\ call.pc = "lrange" /\ call.limit >= 1
        /\ call'.pc = "done" /\ call'.err = "nil"
        /\ TotalMessages(call.s) <= MaxSessionMessages
        /\ \E k \in 1..Len(repop) :
              repop[k].s = call.s /\ repop[k].pc = "lpush"
              /\ Len(repop[k].msgs) = TotalMessages(call.s))
        => Len(call'.msgs) >= Min(call.limit, TotalMessages(call.s))]_vars

\* C33: SessionOnlyMemory is deadlock-free under concurrent callers: every call a
\* goroutine has begun eventually returns
C33_EveryCallReturns ==
    \A g \in Goroutines : (gor[g] # NoCall) ~> (gor[g] = NoCall)

\* the stats entry of every session that has a message list counts that list,
\* and no other session has a stats entry
StatsInStep ==
    \A s \in Sessions :
        /\ (stats[s] # NoStats) <=> (s \in hasKey)
        /\ s \in hasKey => /\ stats[s].total = Len(sessions[s])
                           /\ stats[s].session = Len(sessions[s])

\* C34: SessionOnlyMemory keeps its statistics in step with its sessions in every
\* reachable state, under concurrent callers, and a GetStats call, which holds
\* the read lock only, leaves the stats map as it was
C34_StatsFollowSessions ==
    /\ []StatsInStep
    /\ [][\A g \in Goroutines :
             (gor[g].op = "GetStats" /\ gor[g].pc = "rheld" /\ gor'[g] = NoCall)
                => stats' = stats]_vars

\* a goroutine is inside GetStats, with the read lock, on a session whose list
\* AddMessage has trimmed, while another goroutine is inside GetStats too
C34_Witness ==
    /\ \A g \in Goroutines : gor[g].op = "GetStats" /\ gor[g].pc = "rheld"
    /\ mutex.readers = Cardinality(Goroutines)
    /\ "A" \in hasKey /\ Len(inserted["A"]) > MaxSessionMessages
    /\ stats["A"].total = MaxSessionMessages

\* C35: SessionOnlyMemory.GetRecentMessages is total in limit: on a session that
\* has a message list it returns normally, for every limit, with at most
\* max(limit, 0) messages
C35_RecentIsTotalInLimit ==
    (mode = "session_only" /\ Done("GetRecentMessages") /\ call.s \in hasKey)
        => /\ call.err = "nil"
           /\ Len(call.msgs) <= (IF call.limit > 0 THEN call.limit ELSE 0)

\* C36: once a hybrid ClearSession of a session has returned nil, the cache tier
\* holds no summary text of that session for the next Summarize to return
\* (stated for behaviours in which no tier command failed and no key expired)
C36_ClearForgetsCachedSummary ==
    (Hybrid /\ Done("ClearSession") /\ call.err = "nil" /\ faults = 0)
        => sumCache[call.s] = 0

\* C37: searchability is not lost by re-adding: a message id that has an
\* embedding in the durable tier keeps it through every step that is not the
\* deletion of a ClearSession, an AddMessage or Store of the same id whose
\* embedding generation fails included
C37_EmbeddingSurvivesReAdd ==
    [][\A i \in Ids :
          (/\ db[i] # NoRow /\ db[i].emb
           /\ ~(call.op = "ClearSession" /\ call.pc = "durable"))
            => (db'[i] # NoRow /\ db'[i].emb)]_vars

\* C38: a SessionOnlyMemory AddMessage or Store whose message has an empty session
\* ID returns an error and leaves every session list and every stats entry as
\* it was
C38_EmptySessionIsRefused ==
    [][(/\ mode = "session_only" /\ clock' = clock + 1
        /\ call'.op \in {"AddMessage", "Store"} /\ call'.s = "")
        => /\ call'.err # "nil"
           /\ UNCHANGED <<sessions, hasKey, stats>>]_vars

\* a Store without session ID was refused while a session holds a full list
C38_Witness ==
    /\ mode = "session_only" /\ Done("Store") /\ call.s = "" /\ call.err = "nosession"
    /\ \E s \in Callers : s \in hasKey /\ Len(sessions[s]) = MaxSessionMessages
                          /\ stats[s].total = MaxSessionMessages

====
